---- MODULE Spec2Model ----
(***************************************************************************)
(* Model of the multi-bank commit orchestrator                             *)
(* (internal/core/commit_orchestrator.go), its telemetry span              *)
(* (internal/telemetry/commit_metrics.go) and the register banks of the    *)
(* integration test (tests/integration/multibank_commit_test.go), and the  *)
(* segmented queue (package queue) with its deques.                        *)
(*                                                                         *)
(* Every caller thread runs CommitAll as a sequence of steps; the steps    *)
(* are the points at which another thread can be scheduled: the telemetry  *)
(* span, the mutex acquisition, each ctx.Err() check, each bank callback,  *)
(* the version increment and the two deferred calls.                       *)
(***************************************************************************)
EXTENDS Integers, Sequences, FiniteSets, TLC

\* ------------------------------------------------------------------ bounds
NumProcs == 2      \* caller threads that run CommitAll
MaxBanks == 3      \* banks that RegisterBank may append
MaxCalls == 2      \* CommitAll calls started in one behaviour
MaxState == 2      \* highest register version a writer stages
MaxPush == 3       \* values the writers push to the segmented queues
MaxTokens == 2     \* PrepareCommit calls a client makes on one queue
MaxQueuePush == 5  \* Push calls made on the committable Queue
MaxQueueLen == 3   \* highest maxLength a committable Queue is given
MinQueueLen == -1  \* lowest maxLength: a negative one, unbounded like 0
MaxVisible == 2    \* Options.MaxLen of the bounded segmented queues

Procs == 1..NumProcs
NoProc == 0

\* ------------------------------------------------------------------ errors
\* An error value is a record; two errors are the same value iff equal.
Nil == [msg |-> "nil", bank |-> 0]
Canceled == [msg |-> "context canceled", bank |-> 0]
BankErr(b) == [msg |-> "prepare failed", bank |-> b]
NilBankErr == [msg |-> "nil bank", bank |-> 0]

CtxErrs == {Canceled}

VARIABLES
  banks,          \* o.banks: sequence of bank ids, in registration order
  mu,             \* o.mu: the caller holding the writer lock, or NoProc
  version,        \* o.version
  attempts,       \* defaultCommitMetrics.attempts
  failures,       \* defaultCommitMetrics.failures
  totalDuration,  \* defaultCommitMetrics.totalDuration
  pc,             \* position of each caller inside CommitAll
  ctx,            \* each caller's context: [err, observer]
  err,            \* the named result err of each running call
  idx,            \* loop index of the running loop of each call
  publishes,      \* the publishes slice of each call
  aborts,         \* the aborts slice of each call
  startVersion,   \* o.version when the call acquired the lock
  log,            \* callbacks invoked by the running call, in order
  order,          \* banks in the order their publish callbacks ran
  calls,          \* number of CommitAll calls started
  failed,         \* number of CommitAll calls that returned an error
  regResult,      \* the value the last RegisterBank returned
  regWaiting,     \* whether a RegisterBank call is waiting for o.mu
  visible,        \* registerBank.visible (the version field)
  pending,        \* registerBank.pending
  hasPending,     \* registerBank.hasPending
  rpc,            \* position of the reader in performModbusRead
  pair,           \* the registerPair the reader is assembling
  nodes,          \* the heap of deque nodes: [value, prev, next] per node
  qVisible,       \* SegmentedQueue.visible of each queue: [head, tail, len]
  qPending,       \* SegmentedQueue.pending of each queue
  qStaged,        \* the staged deques of each queue's PrepareCommit calls
  produced,       \* number of values the writers have pushed so far
  consumed,       \* the values the readers have popped so far
  snap,           \* the queues as the writers saw them after their last push
  lastOp,         \* the last call a client made on a queue
  taken,          \* what each PrepareCommit call on a queue detached
  spent,          \* how often each PrepareCommit's callbacks were called
  bq,             \* the committable Queue: its fields and its nodes
  bqPushed,       \* number of Push calls made on the Queue
  bqOp,           \* the last call on the Queue and what it returned
  bqPoppedBack,   \* whether a PopBack has taken an element from the Queue
  lk,             \* holders of sq.mu, visible.mu and pending.mu of a queue
  tpc,            \* position of each goroutine inside its queue operation
  probe           \* the goroutine that calls Reset and Snapshot on the metrics

vars == <<banks, mu, version, attempts, failures, totalDuration, pc, ctx, err, idx,
          publishes, aborts, startVersion, log, order, calls, failed,
          regResult, regWaiting, visible, pending, hasPending, rpc, pair,
          nodes, qVisible, qPending, qStaged, produced, consumed, snap,
          lastOp, taken, spent, bq, bqPushed, bqOp,
          bqPoppedBack, lk, tpc, probe>>

orchVars == <<banks, mu, version>>
teleVars == <<attempts, failures, totalDuration>>
regVars == <<visible, pending, hasPending>>
queueVars == <<nodes, qVisible, qPending, qStaged>>
clientVars == <<produced, consumed>>
ghostVars == <<snap, lastOp, taken, spent>>
bankVars == <<regVars, queueVars, clientVars, ghostVars>>
callVars == <<pc, ctx, err, idx, publishes, aborts, startVersion, log, order,
              calls, failed, regResult, regWaiting>>
readVars == <<rpc, pair>>
boundedVars == <<bq, bqPushed, bqOp, bqPoppedBack>>
lockVars == <<lk, tpc>>

BankIds == 1..MaxBanks

\* A callback slot: fn is "nil" for a nil func, "noop" for the orchestrator's
\* substitute of a nil func, "func" for a closure that touches no register,
\* "register" for a registerBank closure that captured staged and "queue"
\* for a SegmentedQueue closure, whose staged is the number of the
\* PrepareCommit call that made it.
Callback(b, fn, staged) == [bank |-> b, fn |-> fn, staged |-> staged]

Event(ev, b, e) == [ev |-> ev, bank |-> b, err |-> e]

\* The events of one kind in a log, in order.
RECURSIVE Select(_, _)
Select(s, ev) ==
  IF s = <<>> THEN <<>>
  ELSE IF Head(s).ev = ev THEN <<Head(s)>> \o Select(Tail(s), ev)
       ELSE Select(Tail(s), ev)

BanksOf(s) == [k \in 1..Len(s) |-> s[k].bank]

Reverse(s) == [k \in 1..Len(s) |-> s[Len(s) + 1 - k]]

\* ------------------------------------------------------------------- deque
\* A deque is [head, tail, len]; head and tail are node ids, NilNode for a
\* nil pointer.  The nodes live in a heap that maps a node id to
\* [value, prev, next].  Every operation below runs under the deque's mutex
\* and returns the deque and the heap as it leaves them.
NilNode == 0

NodeIds == 1..MaxPush

newDeque == [head |-> NilNode, tail |-> NilNode, len |-> 0]

\* &node[T]{value: value}
NewNode(value) == [value |-> value, prev |-> NilNode, next |-> NilNode]

\* pushBack as it would be if the old tail were not linked to the new node.
pushBackUnlinked(d, heap, n, value) ==
  IF d.len = 0
    THEN [d |-> [head |-> n, tail |-> n, len |-> d.len + 1],
          heap |-> [heap EXCEPT ![n] = NewNode(value)]]
    ELSE [d |-> [d EXCEPT !.tail = n, !.len = @ + 1],
          heap |-> [heap EXCEPT ![n] = [NewNode(value) EXCEPT !.prev = d.tail]]]

\* d.pushBack(value); n is the address of the node it allocates.
pushBack(d, heap, n, value) ==
  IF d.len = 0
    THEN [d |-> [head |-> n, tail |-> n, len |-> d.len + 1],
          heap |-> [heap EXCEPT ![n] = NewNode(value)]]
    ELSE [d |-> [d EXCEPT !.tail = n, !.len = @ + 1],
          heap |-> [heap EXCEPT ![n] = [NewNode(value) EXCEPT !.prev = d.tail],
                                ![d.tail].next = n]]

\* d.pushFront(value)
pushFront(d, heap, n, value) ==
  IF d.len = 0
    THEN [d |-> [head |-> n, tail |-> n, len |-> d.len + 1],
          heap |-> [heap EXCEPT ![n] = NewNode(value)]]
    ELSE [d |-> [d EXCEPT !.head = n, !.len = @ + 1],
          heap |-> [heap EXCEPT ![n] = [NewNode(value) EXCEPT !.next = d.head],
                                ![d.head].prev = n]]

\* popFront as it would be if it returned the head's value without
\* unlinking the head.
popFrontKeepsHead(d, heap) ==
  IF d.len = 0
    THEN [d |-> d, heap |-> heap, value |-> 0, ok |-> FALSE]
    ELSE [d |-> d, heap |-> heap, value |-> heap[d.head].value, ok |-> TRUE]

\* d.popFront(): the zero value and false on an empty deque.
popFront(d, heap) ==
  IF d.len = 0
    THEN [d |-> d, heap |-> heap, value |-> 0, ok |-> FALSE]
    ELSE LET current == d.head
             next == heap[current].next
             h1 == IF next # NilNode
                     THEN [heap EXCEPT ![next].prev = NilNode] ELSE heap
         IN [d |-> [head |-> next,
                    tail |-> IF next # NilNode THEN d.tail ELSE NilNode,
                    len |-> d.len - 1],
             heap |-> [h1 EXCEPT ![current].next = NilNode,
                                 ![current].prev = NilNode],
             value |-> heap[current].value, ok |-> TRUE]

\* d.popBack()
popBack(d, heap) ==
  IF d.len = 0
    THEN [d |-> d, heap |-> heap, value |-> 0, ok |-> FALSE]
    ELSE LET current == d.tail
             prev == heap[current].prev
             h1 == IF prev # NilNode
                     THEN [heap EXCEPT ![prev].next = NilNode] ELSE heap
         IN [d |-> [head |-> IF prev # NilNode THEN d.head ELSE NilNode,
                    tail |-> prev,
                    len |-> d.len - 1],
             heap |-> [h1 EXCEPT ![current].next = NilNode,
                                 ![current].prev = NilNode],
             value |-> heap[current].value, ok |-> TRUE]

\* d.length()
length(d) == d.len

\* appendLocked as it would be if a non-empty destination were overwritten
\* by the source instead of extended.
appendLockedOverwrites(d, other, heap) ==
  IF other.len = 0
    THEN [d |-> d, other |-> other, heap |-> heap]
    ELSE [d |-> [head |-> other.head, tail |-> other.tail, len |-> other.len],
          other |-> [head |-> NilNode, tail |-> NilNode, len |-> 0],
          heap |-> heap]

\* appendLocked as it would be if other kept its head, tail and len after
\* the splice.
appendLockedKeepsOther(d, other, heap) ==
  IF other.len = 0
    THEN [d |-> d, other |-> other, heap |-> heap]
    ELSE IF d.len = 0
      THEN [d |-> [head |-> other.head, tail |-> other.tail, len |-> other.len],
            other |-> other,
            heap |-> heap]
      ELSE [d |-> [d EXCEPT !.tail = other.tail, !.len = @ + other.len],
            other |-> other,
            heap |-> [heap EXCEPT ![other.head].prev = d.tail,
                                  ![d.tail].next = other.head]]

\* d.appendLocked(other): both mutexes are held by the caller.
appendLocked(d, other, heap) ==
  IF other.len = 0
    THEN [d |-> d, other |-> other, heap |-> heap]
    ELSE IF d.len = 0
      THEN [d |-> [head |-> other.head, tail |-> other.tail, len |-> other.len],
            other |-> [head |-> NilNode, tail |-> NilNode, len |-> 0],
            heap |-> heap]
      ELSE [d |-> [d EXCEPT !.tail = other.tail, !.len = @ + other.len],
            other |-> [head |-> NilNode, tail |-> NilNode, len |-> 0],
            heap |-> [heap EXCEPT ![other.head].prev = d.tail,
                                  ![d.tail].next = other.head]]

\* The counterpart of appendLocked at the head: every node of other is moved
\* in front of d's head, in order, and other is left empty.
prependLocked(d, other, heap) ==
  IF other.len = 0
    THEN [d |-> d, other |-> other, heap |-> heap]
    ELSE IF d.len = 0
      THEN [d |-> [head |-> other.head, tail |-> other.tail, len |-> other.len],
            other |-> [head |-> NilNode, tail |-> NilNode, len |-> 0],
            heap |-> heap]
      ELSE [d |-> [d EXCEPT !.head = other.head, !.len = @ + other.len],
            other |-> [head |-> NilNode, tail |-> NilNode, len |-> 0],
            heap |-> [heap EXCEPT ![other.tail].next = d.head,
                                  ![d.head].prev = other.tail]]

\* The values a drain of d by popFront would return: the nodes reached from
\* head by next, at most fuel of them.
RECURSIVE Walk(_, _, _)
Walk(heap, n, fuel) ==
  IF n = NilNode \/ fuel = 0 THEN <<>>
  ELSE <<heap[n].value>> \o Walk(heap, heap[n].next, fuel - 1)

Contents(d, heap) == Walk(heap, d.head, MaxPush + 1)

\* ------------------------------------------------------- committable queue
\* The Queue of package committablequeue: one doubly-linked list, with
\* commit pointing at the first uncommitted node.  A queue value q carries
\* its fields and the nodes it allocated.
QueueNodeIds == 1..MaxQueuePush

OverflowPolicies == {"OverflowError", "OverflowDropOldest", "OverflowDropNewest"}

ErrQueueFull == [msg |-> "committablequeue: queue is full", bank |-> 0]

NewQueue(maxLength, policy) ==
  [nodes |-> [n \in QueueNodeIds |-> NewNode(0)],
   head |-> NilNode, tail |-> NilNode, commit |-> NilNode,
   size |-> 0, uncommitted |-> 0,
   maxLength |-> maxLength, overflowPolicy |-> policy]

QueueLen(q) == q.size

CommittedLen(q) == q.size - q.uncommitted

UncommittedLen(q) == q.uncommitted

\* appendNode as it would be if it never set the commit cursor.
appendNodeUnmarked(q, n, value) ==
  LET fresh == [q.nodes EXCEPT ![n] = NewNode(value)]
      linked == IF q.tail = NilNode
                  THEN [q EXCEPT !.nodes = fresh, !.head = n, !.tail = n]
                  ELSE [q EXCEPT !.nodes = [fresh EXCEPT ![q.tail].next = n,
                                                         ![n].prev = q.tail],
                                 !.tail = n]
  IN [linked EXCEPT !.uncommitted = @ + 1, !.size = @ + 1]

\* q.appendNode(n), n a fresh node with the value.
appendNode(q, n, value) ==
  LET fresh == [q.nodes EXCEPT ![n] = NewNode(value)]
      linked == IF q.tail = NilNode
                  THEN [q EXCEPT !.nodes = fresh, !.head = n, !.tail = n]
                  ELSE [q EXCEPT !.nodes = [fresh EXCEPT ![q.tail].next = n,
                                                         ![n].prev = q.tail],
                                 !.tail = n]
      marked == IF q.uncommitted = 0
                  THEN [linked EXCEPT !.commit = n] ELSE linked
  IN [marked EXCEPT !.uncommitted = @ + 1, !.size = @ + 1]

\* q.unlinkNode(n, uncommitted)
unlinkNode(q, n, uncommitted) ==
  LET prev == q.nodes[n].prev
      next == q.nodes[n].next
      q1 == IF prev # NilNode
              THEN [q EXCEPT !.nodes[prev].next = next]
              ELSE [q EXCEPT !.head = next]
      q2 == IF next # NilNode
              THEN [q1 EXCEPT !.nodes[next].prev = prev]
              ELSE [q1 EXCEPT !.tail = prev]
      q3 == IF uncommitted
              THEN LET a == IF q2.commit = n
                              THEN [q2 EXCEPT !.commit = next] ELSE q2
                       b == IF a.uncommitted > 0
                              THEN [a EXCEPT !.uncommitted = @ - 1] ELSE a
                   IN IF b.uncommitted = 0
                        THEN [b EXCEPT !.commit = NilNode] ELSE b
              ELSE q2
      q4 == [q3 EXCEPT !.size = @ - 1]
  IN IF q4.size = 0
       THEN [q4 EXCEPT !.commit = NilNode, !.uncommitted = 0]
       ELSE q4

\* dropOldest as it would be if the head were always unlinked as a
\* committed element.
dropOldestCommitted(q) ==
  IF q.head = NilNode
    THEN [q |-> q, dropped |-> FALSE]
    ELSE [q |-> unlinkNode(q, q.head, FALSE), dropped |-> TRUE]

\* q.dropOldest()
dropOldest(q) ==
  IF q.head = NilNode
    THEN [q |-> q, dropped |-> FALSE]
    ELSE [q |-> unlinkNode(q, q.head,
                           q.commit # NilNode /\ q.commit = q.head),
          dropped |-> TRUE]

\* Push as it would be if the queue were full only beyond maxLength.
PushPastLimit(q, n, value) ==
  IF q.maxLength > 0 /\ q.size > q.maxLength
    THEN CASE q.overflowPolicy = "OverflowDropOldest" ->
                LET d == dropOldest(q)
                IN [q |-> appendNode(d.q, n, value),
                    dropped |-> d.dropped, err |-> Nil]
           [] q.overflowPolicy = "OverflowDropNewest" ->
                [q |-> q, dropped |-> TRUE, err |-> Nil]
           [] OTHER ->
                [q |-> q, dropped |-> FALSE, err |-> ErrQueueFull]
    ELSE [q |-> appendNode(q, n, value), dropped |-> FALSE, err |-> Nil]

\* Push as it would be if a full queue under OverflowDropNewest gave up its
\* newest element for the pushed one.
PushReplacesNewest(q, n, value) ==
  IF q.maxLength > 0 /\ q.size >= q.maxLength
    THEN CASE q.overflowPolicy = "OverflowDropOldest" ->
                LET d == dropOldest(q)
                IN [q |-> appendNode(d.q, n, value),
                    dropped |-> d.dropped, err |-> Nil]
           [] q.overflowPolicy = "OverflowDropNewest" ->
                [q |-> appendNode(unlinkNode(q, q.tail, q.uncommitted > 0),
                                  n, value),
                 dropped |-> TRUE, err |-> Nil]
           [] OTHER ->
                [q |-> q, dropped |-> FALSE, err |-> ErrQueueFull]
    ELSE [q |-> appendNode(q, n, value), dropped |-> FALSE, err |-> Nil]

\* q.Push(value), under q.mu; n is the node a push that appends allocates.
Push(q, n, value) ==
  IF q.maxLength > 0 /\ q.size >= q.maxLength
    THEN CASE q.overflowPolicy = "OverflowDropOldest" ->
                LET d == dropOldest(q)
                IN [q |-> appendNode(d.q, n, value),
                    dropped |-> d.dropped, err |-> Nil]
           [] q.overflowPolicy = "OverflowDropNewest" ->
                [q |-> q, dropped |-> TRUE, err |-> Nil]
           [] OTHER ->
                [q |-> q, dropped |-> FALSE, err |-> ErrQueueFull]
    ELSE [q |-> appendNode(q, n, value), dropped |-> FALSE, err |-> Nil]

\* Commit as it would be if it left the commit cursor where it was.
QueueCommitKeepsCursor(q) ==
  IF q.uncommitted = 0
    THEN [q |-> q, moved |-> 0]
    ELSE [q |-> [q EXCEPT !.uncommitted = 0], moved |-> q.uncommitted]

\* q.Commit(), under q.mu: the number of elements that became committed.
QueueCommit(q) ==
  IF q.uncommitted = 0
    THEN [q |-> q, moved |-> 0]
    ELSE [q |-> [q EXCEPT !.commit = NilNode, !.uncommitted = 0],
          moved |-> q.uncommitted]

\* q.PopFront(), under q.mu.
QueuePopFront(q) ==
  IF q.size = 0 \/ q.size = q.uncommitted
    THEN [q |-> q, value |-> 0, ok |-> FALSE]
    ELSE [q |-> unlinkNode(q, q.head, FALSE),
          value |-> q.nodes[q.head].value, ok |-> TRUE]

\* PopBack as it would be if it always took the tail of the list.
QueuePopBackTail(q) ==
  IF q.size = 0 \/ q.size = q.uncommitted
    THEN [q |-> q, value |-> 0, ok |-> FALSE]
    ELSE IF q.tail = NilNode
           THEN [q |-> q, value |-> 0, ok |-> FALSE]
           ELSE [q |-> unlinkNode(q, q.tail, FALSE),
                 value |-> q.nodes[q.tail].value, ok |-> TRUE]

\* q.PopBack(), under q.mu: the node before commit when there is an
\* uncommitted tail, the tail otherwise.
QueuePopBack(q) ==
  IF q.size = 0 \/ q.size = q.uncommitted
    THEN [q |-> q, value |-> 0, ok |-> FALSE]
    ELSE LET n == IF q.uncommitted = 0 THEN q.tail
                  ELSE q.nodes[q.commit].prev
         IN IF n = NilNode
              THEN [q |-> q, value |-> 0, ok |-> FALSE]
              ELSE [q |-> unlinkNode(q, n, FALSE),
                    value |-> q.nodes[n].value, ok |-> TRUE]

\* The values from node n on, up to the end or up to node stop.
RECURSIVE QueueWalk(_, _, _, _)
QueueWalk(q, n, stop, fuel) ==
  IF n = NilNode \/ n = stop \/ fuel = 0 THEN <<>>
  ELSE <<q.nodes[n].value>> \o QueueWalk(q, q.nodes[n].next, stop, fuel - 1)

\* q.SnapshotCommitted()
SnapshotCommitted(q) ==
  IF q.size - q.uncommitted <= 0 THEN <<>>
  ELSE QueueWalk(q, q.head, q.commit, MaxQueuePush + 1)

\* The uncommitted elements, oldest first: the list from commit on.
Uncommitted(q) == QueueWalk(q, q.commit, NilNode, MaxQueuePush + 1)

\* No call has been made on the queue yet.
NoCall == [op |-> "new", value |-> 0, ok |-> FALSE, err |-> Nil, n |-> 0]

\* The goroutine that reads and resets the metrics has made no call yet:
\* at is its position in Reset or Snapshot, resetAt the number of attempts
\* made when it last called Reset (-1 without one), quiet whether the
\* Snapshot it is in began after that Reset had returned with no attempt
\* made since the Reset was called, returned whether its last call was a
\* Snapshot that has returned, and got what that Snapshot read.
NoProbe ==
  [at |-> "idle", resetAt |-> -1, quiet |-> FALSE, returned |-> FALSE,
   got |-> [attempts |-> 0, failures |-> 0, average |-> 0]]

\* ---------------------------------------------- goroutines on one queue
\* The goroutines of the concurrency test on one SegmentedQueue: two call
\* Commit, one pushes and one pops.
Committers == {1, 2}
Pushers == {3}
Poppers == {4}
Goroutines == Committers \cup Pushers \cup Poppers
NoGoroutine == 0

\* sq.mu, sq.visible.mu and sq.pending.mu, all free.
Unlocked == [sq |-> NoGoroutine, visible |-> NoGoroutine, pending |-> NoGoroutine]

\* -------------------------------------------------------------------- Init
InitCommon ==
  /\ mu = NoProc
  /\ version = 0
  /\ attempts = 0
  /\ failures = 0
  /\ totalDuration = 0
  /\ probe = NoProbe
  /\ pc = [p \in Procs |-> "idle"]
  /\ ctx = [p \in Procs |-> [err |-> Nil, observer |-> FALSE]]
  /\ err = [p \in Procs |-> Nil]
  /\ idx = [p \in Procs |-> 0]
  /\ publishes = [p \in Procs |-> <<>>]
  /\ aborts = [p \in Procs |-> <<>>]
  /\ startVersion = [p \in Procs |-> 0]
  /\ log = [p \in Procs |-> <<>>]
  /\ order = <<>>
  /\ calls = 0
  /\ failed = 0
  /\ regResult = Nil
  /\ regWaiting = FALSE
  /\ visible = [b \in BankIds |-> 0]
  /\ pending = [b \in BankIds |-> 0]
  /\ hasPending = [b \in BankIds |-> FALSE]
  /\ rpc = "left"
  /\ pair = [left |-> 0, right |-> 0]
  /\ nodes = [n \in NodeIds |-> NewNode(0)]
  /\ qVisible = [b \in BankIds |-> newDeque]
  /\ qPending = [b \in BankIds |-> newDeque]
  /\ qStaged = [b \in BankIds |-> <<>>]
  /\ produced = 0
  /\ consumed = {}
  /\ snap = [version |-> 0,
             visible |-> [b \in BankIds |-> <<>>],
             pending |-> [b \in BankIds |-> <<>>]]
  /\ lastOp = [op |-> "new", bank |-> 0, token |-> 0, value |-> 0]
  /\ taken = [b \in BankIds |-> <<>>]
  /\ spent = [b \in BankIds |-> <<>>]
  /\ bqPushed = 0
  /\ bqOp = NoCall
  /\ bqPoppedBack = FALSE
  /\ lk = Unlocked
  /\ tpc = [t \in Goroutines |-> "idle"]

\* NewCommitOrchestrator() with no banks, as FuzzCommitAll constructs it.
Init ==
  /\ InitCommon
  /\ bq = NewQueue(0, "OverflowError")
  /\ banks = <<>>


\* ----------------------------------------------------------- orchestrator
\* CommitOrchestrator.Version: an atomic load of the counter.
Version == version

\* The callers inside the critical section of CommitAll (between mu.Lock
\* and the deferred mu.Unlock).
CriticalPcs == {"empty", "loop", "prepare", "abort", "observe_err",
                "postcheck", "observe", "publish", "bump", "unlock"}

InCS(p) == pc[p] \in CriticalPcs

\* A caller starts CommitAll: telemetry.TraceCommit counts the attempt and
\* the observer is looked up in the context.  The caller supplies a context
\* that may already be cancelled and may carry an observer.
Begin(p) ==
  /\ pc[p] = "idle"
  /\ calls < MaxCalls
  /\ \E e \in {Nil} \cup CtxErrs, o \in BOOLEAN :
       ctx' = [ctx EXCEPT ![p] = [err |-> e, observer |-> o]]
  /\ calls' = calls + 1
  /\ attempts' = attempts + 1
  /\ pc' = [pc EXCEPT ![p] = "lock"]
  /\ err' = [err EXCEPT ![p] = Nil]
  /\ log' = [log EXCEPT ![p] = <<>>]
  /\ publishes' = [publishes EXCEPT ![p] = <<>>]
  /\ aborts' = [aborts EXCEPT ![p] = <<>>]
  /\ idx' = [idx EXCEPT ![p] = 0]
  /\ UNCHANGED <<orchVars, failures, totalDuration, startVersion, order, failed,
                 regResult, regWaiting, bankVars, readVars, boundedVars,
                 lockVars, probe>>

\* The context of a running call is cancelled: by its caller, by a deadline,
\* or by a bank or callback that holds the cancel function.  A context
\* keeps the first error it was cancelled with.  Once the call has released
\* the lock it reads its context no more.
CancelCtx(p) ==
  /\ pc[p] \notin {"idle", "finish"}
  /\ ctx[p].err = Nil
  /\ \E e \in CtxErrs : ctx' = [ctx EXCEPT ![p].err = e]
  /\ UNCHANGED <<orchVars, teleVars, pc, err, idx, publishes, aborts,
                 startVersion, log, order, calls, failed, regResult, regWaiting,
                 bankVars, readVars, boundedVars, lockVars, probe>>

\* LockFree as it would be if the writer lock were never contended.
LockIgnored == TRUE

\* o.mu.Lock() followed by the test of len(o.banks).
LockFree == mu = NoProc

Lock(p) ==
  /\ pc[p] = "lock"
  /\ LockFree
  /\ mu' = p
  /\ startVersion' = [startVersion EXCEPT ![p] = version]
  /\ pc' = [pc EXCEPT ![p] = IF Len(banks) = 0 THEN "empty" ELSE "loop"]
  /\ idx' = [idx EXCEPT ![p] = 1]
  /\ UNCHANGED <<banks, version, teleVars, ctx, err, publishes, aborts,
                 log, order, calls, failed, regResult, regWaiting, bankVars, readVars, boundedVars, lockVars, probe>>

\* The observer is called with e when the context carries one.
Notify(p, e) ==
  IF ctx[p].observer THEN Append(log[p], Event("observer", 0, e))
  ELSE log[p]

\* Empty as it would be if the fast path fell through to the version bump.
EmptyBumps(p) ==
  /\ pc[p] = "empty"
  /\ log' = [log EXCEPT ![p] = Notify(p, Nil)]
  /\ err' = [err EXCEPT ![p] = Nil]
  /\ version' = version + 1
  /\ pc' = [pc EXCEPT ![p] = "unlock"]
  /\ UNCHANGED <<banks, mu, teleVars, ctx, idx, publishes, aborts, 
                 startVersion, order, calls, failed, regResult, regWaiting, bankVars, readVars, boundedVars, lockVars, probe>>

\* Empty as it would be if the fast path looked at the context first and
\* returned its error.
EmptyChecksCtx(p) ==
  /\ pc[p] = "empty"
  /\ log' = [log EXCEPT ![p] = Notify(p, ctx[p].err)]
  /\ err' = [err EXCEPT ![p] = ctx[p].err]
  /\ failed' = IF ctx[p].err # Nil THEN failed + 1 ELSE failed
  /\ pc' = [pc EXCEPT ![p] = "unlock"]
  /\ UNCHANGED <<orchVars, teleVars, ctx, idx, publishes, aborts,
                 startVersion, order, calls, regResult, regWaiting, bankVars, readVars, boundedVars, lockVars, probe>>

\* The fast path of an orchestrator without banks.
Empty(p) ==
  /\ pc[p] = "empty"
  /\ log' = [log EXCEPT ![p] = Notify(p, Nil)]
  /\ err' = [err EXCEPT ![p] = Nil]
  /\ pc' = [pc EXCEPT ![p] = "unlock"]
  /\ UNCHANGED <<orchVars, teleVars, ctx, idx, publishes, aborts, 
                 startVersion, order, calls, failed, regResult, regWaiting, bankVars, readVars, boundedVars, lockVars, probe>>

\* LoopCheck as it would be if the loop did not look at the context before
\* it prepares a bank.
LoopCheckSkips(p) ==
  /\ pc[p] = "loop"
  /\ err' = [err EXCEPT ![p] = Nil]
  /\ pc' = [pc EXCEPT ![p] = "prepare"]
  /\ UNCHANGED <<orchVars, teleVars, ctx, idx, publishes, aborts,
                 startVersion, log, order, calls, failed, regResult, regWaiting, bankVars,
                 readVars, boundedVars, lockVars, probe>>

\* Top of one iteration of the prepare loop: err = ctx.Err().
LoopCheck(p) ==
  /\ pc[p] = "loop"
  /\ err' = [err EXCEPT ![p] = ctx[p].err]
  /\ IF ctx[p].err # Nil
       THEN /\ pc' = [pc EXCEPT ![p] = "abort"]
            /\ idx' = [idx EXCEPT ![p] = Len(aborts[p])]
       ELSE /\ pc' = [pc EXCEPT ![p] = "prepare"]
            /\ idx' = idx
  /\ UNCHANGED <<orchVars, teleVars, ctx, publishes, aborts, 
                 startVersion, log, order, calls, failed, regResult, regWaiting, bankVars,
                 readVars, boundedVars, lockVars, probe>>

\* AfterPrepare as it would be if a cancelled context's error were preferred
\* to the error the bank returned.
AfterPrepareMasks(p, b, pub, ab, e) ==
  /\ log' = [log EXCEPT ![p] = Append(@, Event("prepare", b, e))]
  /\ IF e # Nil
       THEN /\ err' = [err EXCEPT ![p] = IF ctx[p].err # Nil THEN ctx[p].err ELSE e]
            /\ pc' = [pc EXCEPT ![p] = "abort"]
            /\ idx' = [idx EXCEPT ![p] = Len(aborts[p])]
            /\ UNCHANGED <<publishes, aborts>>
       ELSE /\ err' = [err EXCEPT ![p] = e]
            /\ publishes' = [publishes EXCEPT ![p] =
                               Append(@, IF pub.fn = "nil" THEN [pub EXCEPT !.fn = "noop"] ELSE pub)]
            /\ aborts' = [aborts EXCEPT ![p] =
                            Append(@, IF ab.fn = "nil" THEN [ab EXCEPT !.fn = "noop"] ELSE ab)]
            /\ idx' = [idx EXCEPT ![p] = @ + 1]
            /\ pc' = [pc EXCEPT ![p] =
                        IF idx[p] + 1 > Len(banks) THEN "postcheck" ELSE "loop"]

\* AfterPrepare as it would be if the callbacks were collected before the
\* returned error is looked at.
AfterPrepareCollects(p, b, pub, ab, e) ==
  /\ log' = [log EXCEPT ![p] = Append(@, Event("prepare", b, e))]
  /\ err' = [err EXCEPT ![p] = e]
  /\ publishes' = [publishes EXCEPT ![p] =
                     Append(@, IF pub.fn = "nil" THEN [pub EXCEPT !.fn = "noop"]
                               ELSE pub)]
  /\ aborts' = [aborts EXCEPT ![p] =
                  Append(@, IF ab.fn = "nil" THEN [ab EXCEPT !.fn = "noop"]
                            ELSE ab)]
  /\ IF e # Nil
       THEN /\ pc' = [pc EXCEPT ![p] = "abort"]
            /\ idx' = [idx EXCEPT ![p] = Len(aborts[p]) + 1]
       ELSE /\ idx' = [idx EXCEPT ![p] = @ + 1]
            /\ pc' = [pc EXCEPT ![p] =
                        IF idx[p] + 1 > Len(banks) THEN "postcheck" ELSE "loop"]

\* What the orchestrator does with the triple a PrepareCommit returned:
\* on an error the loop is left, otherwise nil callbacks are replaced by
\* no-ops and both callbacks are collected.
Substitute(cb) == IF cb.fn = "nil" THEN [cb EXCEPT !.fn = "noop"] ELSE cb

\* The iteration as it would be if, on an error, an abort that came with
\* the error were still collected.
AfterPrepareKeepsAbort(p, b, pub, ab, e) ==
  /\ log' = [log EXCEPT ![p] = Append(@, Event("prepare", b, e))]
  /\ err' = [err EXCEPT ![p] = e]
  /\ IF e # Nil
       THEN /\ pc' = [pc EXCEPT ![p] = "abort"]
            /\ aborts' = [aborts EXCEPT ![p] =
                            IF ab.fn = "nil" THEN @ ELSE Append(@, ab)]
            /\ idx' = [idx EXCEPT ![p] = Len(aborts'[p])]
            /\ UNCHANGED publishes
       ELSE /\ publishes' = [publishes EXCEPT ![p] = Append(@, Substitute(pub))]
            /\ aborts' = [aborts EXCEPT ![p] = Append(@, Substitute(ab))]
            /\ idx' = [idx EXCEPT ![p] = @ + 1]
            /\ pc' = [pc EXCEPT ![p] =
                        IF idx[p] + 1 > Len(banks) THEN "postcheck" ELSE "loop"]

AfterPrepare(p, b, pub, ab, e) ==
  /\ log' = [log EXCEPT ![p] = Append(@, Event("prepare", b, e))]
  /\ err' = [err EXCEPT ![p] = e]
  /\ IF e # Nil
       THEN /\ pc' = [pc EXCEPT ![p] = "abort"]
            /\ idx' = [idx EXCEPT ![p] = Len(aborts[p])]
            /\ UNCHANGED <<publishes, aborts>>
       ELSE /\ publishes' = [publishes EXCEPT ![p] = Append(@, Substitute(pub))]
            /\ aborts' = [aborts EXCEPT ![p] = Append(@, Substitute(ab))]
            /\ idx' = [idx EXCEPT ![p] = @ + 1]
            /\ pc' = [pc EXCEPT ![p] =
                        IF idx[p] + 1 > Len(banks) THEN "postcheck" ELSE "loop"]

\* The triples a bank may return.  Bank is an interface; the test doubles
\* return callbacks (here the banks at odd positions) or nil callbacks (the
\* banks at even positions, as bank1 and bank2 of
\* TestCommitOrchestratorSuccess), an error of their own, an error together
\* with callbacks, or the context's error once the context is cancelled.
PrepareResults(p, b) ==
  { IF b % 2 = 1
      THEN [publish |-> Callback(b, "func", 0), abort |-> Callback(b, "func", 0), err |-> Nil]
      ELSE [publish |-> Callback(b, "nil", 0), abort |-> Callback(b, "nil", 0), err |-> Nil],
    [publish |-> Callback(b, "nil", 0), abort |-> Callback(b, "nil", 0), err |-> BankErr(b)],
    [publish |-> Callback(b, "func", 0), abort |-> Callback(b, "func", 0), err |-> BankErr(b)] }
  \cup
  IF ctx[p].err # Nil
    THEN { [publish |-> Callback(b, "nil", 0), abort |-> Callback(b, "nil", 0), err |-> ctx[p].err] }
    ELSE {}

\* bank.PrepareCommit(ctx) of a test double, and the rest of the iteration.
Prepare(p) ==
  /\ pc[p] = "prepare"
  /\ \E r \in PrepareResults(p, banks[idx[p]]) :
       AfterPrepare(p, banks[idx[p]], r.publish, r.abort, r.err)
  /\ UNCHANGED <<orchVars, teleVars, ctx, startVersion, order,
                 calls, failed, regResult, regWaiting, bankVars, readVars, boundedVars, lockVars, probe>>

\* ----------------------------------------------------------- staged commit
\* stagedPublish as it would be if publish spliced the current pending
\* segment, with the values pushed since PrepareCommit, behind the staged one.
stagedPublishTakesPending(b, k) ==
  LET r == appendLocked(qVisible[b], qStaged[b][k], nodes)
      q == appendLocked(r.d, qPending[b], r.heap)
  IN /\ qVisible' = [qVisible EXCEPT ![b] = q.d]
     /\ qStaged' = [qStaged EXCEPT ![b][k] = r.other]
     /\ qPending' = [qPending EXCEPT ![b] = q.other]
     /\ nodes' = q.heap

\* The publish callback of the k-th PrepareCommit on queue b: under the
\* staging mutex the staged deque is spliced onto the tail of visible.  The
\* queues are built without a MaxLen, so nothing is dropped.  A staged deque
\* that was consumed before is empty, and the splice then does nothing.
stagedPublish(b, k) ==
  LET r == appendLocked(qVisible[b], qStaged[b][k], nodes)
  IN /\ qVisible' = [qVisible EXCEPT ![b] = r.d]
     /\ qStaged' = [qStaged EXCEPT ![b][k] = r.other]
     /\ nodes' = r.heap
     /\ UNCHANGED qPending

\* stagedAbort as it would be if abort put the staged values behind the
\* values pushed since PrepareCommit.
stagedAbortAppends(b, k) ==
  LET r == appendLocked(qPending[b], qStaged[b][k], nodes)
  IN /\ qPending' = [qPending EXCEPT ![b] = r.d]
     /\ qStaged' = [qStaged EXCEPT ![b][k] = r.other]
     /\ nodes' = r.heap
     /\ UNCHANGED qVisible

\* The abort callback: under the staging mutex the staged nodes are moved in
\* front of the current pending segment, in their order.
stagedAbort(b, k) ==
  LET r == prependLocked(qPending[b], qStaged[b][k], nodes)
  IN /\ qPending' = [qPending EXCEPT ![b] = r.d]
     /\ qStaged' = [qStaged EXCEPT ![b][k] = r.other]
     /\ nodes' = r.heap
     /\ UNCHANGED qVisible

\* A registerBank closure acts on the bank; a test double's closure and the
\* orchestrator's no-op leave every bank as it is.
\* abort: if !b.hasPending { b.pending = staged; b.hasPending = true }
\* A SegmentedQueue closure acts on the staged deque of its PrepareCommit:
\* abort moves the staged nodes in front of the current pending segment and
\* leaves staged empty, so that a second call finds nothing to do.
RunAbort(cb) ==
  IF cb.fn = "register" /\ ~hasPending[cb.bank]
    THEN /\ pending' = [pending EXCEPT ![cb.bank] = cb.staged]
         /\ hasPending' = [hasPending EXCEPT ![cb.bank] = TRUE]
         /\ UNCHANGED <<visible, queueVars, clientVars, ghostVars>>
    ELSE IF cb.fn = "queue"
      THEN /\ stagedAbort(cb.bank, cb.staged)
           /\ UNCHANGED <<regVars, clientVars, ghostVars>>
      ELSE UNCHANGED bankVars

\* publish: b.visible = staged
\* A SegmentedQueue publish splices the staged deque onto the tail of
\* visible; the queues are built without a MaxLen, so nothing is dropped.
RunPublish(cb) ==
  IF cb.fn = "register"
    THEN /\ visible' = [visible EXCEPT ![cb.bank] = cb.staged]
         /\ UNCHANGED <<pending, hasPending, queueVars, clientVars, ghostVars>>
    ELSE IF cb.fn = "queue"
      THEN /\ stagedPublish(cb.bank, cb.staged)
           /\ UNCHANGED <<regVars, clientVars, ghostVars>>
      ELSE UNCHANGED bankVars

\* Abort as it would be if the rollback loop ran from the first collected
\* abort to the last.
AbortForward(p) ==
  /\ pc[p] = "abort"
  /\ IF idx[p] >= 1
       THEN /\ RunAbort(aborts[p][Len(aborts[p]) + 1 - idx[p]])
            /\ log' = [log EXCEPT ![p] =
                         Append(@, Event("abort",
                                aborts[p][Len(aborts[p]) + 1 - idx[p]].bank, Nil))]
            /\ idx' = [idx EXCEPT ![p] = @ - 1]
            /\ pc' = pc
       ELSE /\ pc' = [pc EXCEPT ![p] = "observe_err"]
            /\ UNCHANGED <<bankVars, log, idx>>
  /\ UNCHANGED <<orchVars, teleVars, ctx, err, publishes, aborts, 
                 startVersion, order, calls, failed, regResult, regWaiting, readVars, boundedVars, lockVars, probe>>

\* Abort as it would be if the rollback loop stopped before the abort that
\* was collected first.
AbortSkipsFirst(p) ==
  /\ pc[p] = "abort"
  /\ IF idx[p] >= 2
       THEN /\ RunAbort(aborts[p][idx[p]])
            /\ log' = [log EXCEPT ![p] =
                         Append(@, Event("abort", aborts[p][idx[p]].bank, Nil))]
            /\ idx' = [idx EXCEPT ![p] = @ - 1]
            /\ pc' = pc
       ELSE /\ pc' = [pc EXCEPT ![p] = "observe_err"]
            /\ UNCHANGED <<bankVars, log, idx>>
  /\ UNCHANGED <<orchVars, teleVars, ctx, err, publishes, aborts, 
                 startVersion, order, calls, failed, regResult, regWaiting, readVars, boundedVars, lockVars, probe>>

\* One iteration of a rollback loop: aborts[i]() for i from len-1 down to 0.
\* When the loop has run out the observer is next.
Abort(p) ==
  /\ pc[p] = "abort"
  /\ IF idx[p] >= 1
       THEN /\ RunAbort(aborts[p][idx[p]])
            /\ log' = [log EXCEPT ![p] =
                         Append(@, Event("abort", aborts[p][idx[p]].bank, Nil))]
            /\ idx' = [idx EXCEPT ![p] = @ - 1]
            /\ pc' = pc
       ELSE /\ pc' = [pc EXCEPT ![p] = "observe_err"]
            /\ UNCHANGED <<bankVars, log, idx>>
  /\ UNCHANGED <<orchVars, teleVars, ctx, err, publishes, aborts, 
                 startVersion, order, calls, failed, regResult, regWaiting, readVars, boundedVars, lockVars, probe>>

\* ObserveErr as it would be if the failure path passed nil to the observer.
ObserveErrNil(p) ==
  /\ pc[p] = "observe_err"
  /\ log' = [log EXCEPT ![p] = Notify(p, Nil)]
  /\ failed' = failed + 1
  /\ pc' = [pc EXCEPT ![p] = "unlock"]
  /\ UNCHANGED <<orchVars, teleVars, ctx, err, idx, publishes, aborts,
                 startVersion, order, calls, regResult, regWaiting, bankVars,
                 readVars, boundedVars, lockVars, probe>>

\* observer(err) on a failure path, followed by return err.
ObserveErr(p) ==
  /\ pc[p] = "observe_err"
  /\ log' = [log EXCEPT ![p] = Notify(p, err[p])]
  /\ failed' = failed + 1
  /\ pc' = [pc EXCEPT ![p] = "unlock"]
  /\ UNCHANGED <<orchVars, teleVars, ctx, err, idx, publishes, aborts,
                 startVersion, order, calls, regResult, regWaiting, bankVars,
                 readVars, boundedVars, lockVars, probe>>

\* PostCheck as it would be if the context were not looked at again after
\* the prepare loop.
PostCheckSkips(p) ==
  /\ pc[p] = "postcheck"
  /\ err' = [err EXCEPT ![p] = Nil]
  /\ pc' = [pc EXCEPT ![p] = "observe"]
  /\ UNCHANGED <<orchVars, teleVars, ctx, idx, publishes, aborts,
                 startVersion, log, order, calls, failed, regResult, regWaiting, bankVars,
                 readVars, boundedVars, lockVars, probe>>

\* The check of ctx.Err() after the prepare loop.
PostCheck(p) ==
  /\ pc[p] = "postcheck"
  /\ err' = [err EXCEPT ![p] = ctx[p].err]
  /\ IF ctx[p].err # Nil
       THEN /\ pc' = [pc EXCEPT ![p] = "abort"]
            /\ idx' = [idx EXCEPT ![p] = Len(aborts[p])]
       ELSE /\ pc' = [pc EXCEPT ![p] = "observe"]
            /\ idx' = idx
  /\ UNCHANGED <<orchVars, teleVars, ctx, publishes, aborts, 
                 startVersion, log, order, calls, failed, regResult, regWaiting, bankVars,
                 readVars, boundedVars, lockVars, probe>>

\* Observe as it would be if observer(nil) came after the publish loop
\* instead of before it.
ObserveAfterPublish(p) ==
  /\ pc[p] = "observe"
  /\ log' = [log EXCEPT ![p] =
               LET published == @ \o [k \in 1..Len(publishes[p]) |->
                                        Event("publish", publishes[p][k].bank, Nil)]
               IN IF ctx[p].observer
                    THEN Append(published, Event("observer", 0, Nil))
                    ELSE published]
  /\ order' = order \o BanksOf(publishes[p])
  /\ pc' = [pc EXCEPT ![p] = "bump"]
  /\ UNCHANGED <<orchVars, teleVars, ctx, err, idx, publishes, aborts, 
                 startVersion, calls, failed, regResult, regWaiting, bankVars, readVars, boundedVars, lockVars, probe>>

\* observer(nil) on the success path.
Observe(p) ==
  /\ pc[p] = "observe"
  /\ log' = [log EXCEPT ![p] = Notify(p, Nil)]
  /\ pc' = [pc EXCEPT ![p] = "publish"]
  /\ idx' = [idx EXCEPT ![p] = 1]
  /\ UNCHANGED <<orchVars, teleVars, ctx, err, publishes, aborts, 
                 startVersion, order, calls, failed, regResult, regWaiting, bankVars, readVars, boundedVars, lockVars, probe>>

\* Publish as it would be if the version were incremented inside the loop.
PublishBumps(p) ==
  /\ pc[p] = "publish"
  /\ idx[p] <= Len(publishes[p])
  /\ RunPublish(publishes[p][idx[p]])
  /\ log' = [log EXCEPT ![p] =
               Append(@, Event("publish", publishes[p][idx[p]].bank, Nil))]
  /\ order' = Append(order, publishes[p][idx[p]].bank)
  /\ idx' = [idx EXCEPT ![p] = @ + 1]
  /\ version' = version + 1
  /\ pc' = [pc EXCEPT ![p] =
              IF idx[p] + 1 > Len(publishes[p]) THEN "unlock" ELSE "publish"]
  /\ UNCHANGED <<banks, mu, teleVars, ctx, err, publishes, aborts, 
                 startVersion, calls, failed, regResult, regWaiting, readVars, boundedVars, lockVars, probe>>

\* Publish as it would be if the loop ran from the last bank to the first.
PublishReverse(p) ==
  /\ pc[p] = "publish"
  /\ idx[p] <= Len(publishes[p])
  /\ RunPublish(publishes[p][Len(publishes[p]) + 1 - idx[p]])
  /\ log' = [log EXCEPT ![p] =
               Append(@, Event("publish",
                      publishes[p][Len(publishes[p]) + 1 - idx[p]].bank, Nil))]
  /\ order' = Append(order, publishes[p][Len(publishes[p]) + 1 - idx[p]].bank)
  /\ idx' = [idx EXCEPT ![p] = @ + 1]
  /\ pc' = [pc EXCEPT ![p] =
              IF idx[p] + 1 > Len(publishes[p]) THEN "bump" ELSE "publish"]
  /\ UNCHANGED <<orchVars, teleVars, ctx, err, publishes, aborts, 
                 startVersion, calls, failed, regResult, regWaiting, readVars, boundedVars, lockVars, probe>>

\* Publish as it would be if the loop looked at the context before each
\* publish and rolled back on a cancellation.
PublishChecksCtx(p) ==
  /\ pc[p] = "publish"
  /\ idx[p] <= Len(publishes[p])
  /\ IF ctx[p].err # Nil
       THEN /\ err' = [err EXCEPT ![p] = ctx[p].err]
            /\ pc' = [pc EXCEPT ![p] = "abort"]
            /\ idx' = [idx EXCEPT ![p] = Len(aborts[p])]
            /\ UNCHANGED <<bankVars, log, order>>
       ELSE /\ RunPublish(publishes[p][idx[p]])
            /\ log' = [log EXCEPT ![p] =
                         Append(@, Event("publish", publishes[p][idx[p]].bank, Nil))]
            /\ order' = Append(order, publishes[p][idx[p]].bank)
            /\ idx' = [idx EXCEPT ![p] = @ + 1]
            /\ pc' = [pc EXCEPT ![p] =
                        IF idx[p] + 1 > Len(publishes[p]) THEN "bump"
                        ELSE "publish"]
            /\ err' = err
  /\ UNCHANGED <<orchVars, teleVars, ctx, publishes, aborts,
                 startVersion, calls, failed, regResult, regWaiting, readVars, boundedVars, lockVars, probe>>

\* One iteration of the publish loop.
Publish(p) ==
  /\ pc[p] = "publish"
  /\ idx[p] <= Len(publishes[p])
  /\ RunPublish(publishes[p][idx[p]])
  /\ log' = [log EXCEPT ![p] =
               Append(@, Event("publish", publishes[p][idx[p]].bank, Nil))]
  /\ order' = Append(order, publishes[p][idx[p]].bank)
  /\ idx' = [idx EXCEPT ![p] = @ + 1]
  /\ pc' = [pc EXCEPT ![p] =
              IF idx[p] + 1 > Len(publishes[p]) THEN "bump" ELSE "publish"]
  /\ UNCHANGED <<orchVars, teleVars, ctx, err, publishes, aborts, 
                 startVersion, calls, failed, regResult, regWaiting, readVars, boundedVars, lockVars, probe>>

\* Bump as it would be if the context were checked once more before the
\* version is incremented.
BumpChecksCtx(p) ==
  /\ pc[p] = "bump"
  /\ version' = IF ctx[p].err = Nil THEN version + 1 ELSE version
  /\ err' = [err EXCEPT ![p] = ctx[p].err]
  /\ pc' = [pc EXCEPT ![p] = "unlock"]
  /\ UNCHANGED <<banks, mu, teleVars, ctx, idx, publishes, aborts, 
                 startVersion, log, order, calls, failed, regResult, regWaiting, bankVars,
                 readVars, boundedVars, lockVars, probe>>

\* o.version.Add(1), followed by return nil.
Bump(p) ==
  /\ pc[p] = "bump"
  /\ version' = version + 1
  /\ err' = [err EXCEPT ![p] = Nil]
  /\ pc' = [pc EXCEPT ![p] = "unlock"]
  /\ UNCHANGED <<banks, mu, teleVars, ctx, idx, publishes, aborts, 
                 startVersion, log, order, calls, failed, regResult, regWaiting, bankVars,
                 readVars, boundedVars, lockVars, probe>>

\* The deferred o.mu.Unlock().  Nothing but err is read after it, so the
\* context, the locals and the record of the call's callbacks are dropped.
\* The deferred Unlock as it would be if only a successful call released
\* the lock.
UnlockOnSuccess(p) ==
  /\ pc[p] = "unlock"
  /\ mu' = IF err[p] = Nil THEN NoProc ELSE mu
  /\ pc' = [pc EXCEPT ![p] = "finish"]
  /\ publishes' = [publishes EXCEPT ![p] = <<>>]
  /\ aborts' = [aborts EXCEPT ![p] = <<>>]
  /\ idx' = [idx EXCEPT ![p] = 0]
  /\ ctx' = [ctx EXCEPT ![p] = [err |-> Nil, observer |-> FALSE]]
  /\ startVersion' = [startVersion EXCEPT ![p] = 0]
  /\ log' = [log EXCEPT ![p] = <<>>]
  /\ UNCHANGED <<banks, version, teleVars, err, order, calls, failed, regResult, regWaiting,
                 bankVars, readVars, boundedVars, lockVars, probe>>

Unlock(p) ==
  /\ pc[p] = "unlock"
  /\ mu' = NoProc
  /\ pc' = [pc EXCEPT ![p] = "finish"]
  /\ publishes' = [publishes EXCEPT ![p] = <<>>]
  /\ aborts' = [aborts EXCEPT ![p] = <<>>]
  /\ idx' = [idx EXCEPT ![p] = 0]
  /\ ctx' = [ctx EXCEPT ![p] = [err |-> Nil, observer |-> FALSE]]
  /\ startVersion' = [startVersion EXCEPT ![p] = 0]
  /\ log' = [log EXCEPT ![p] = <<>>]
  /\ UNCHANGED <<banks, version, teleVars, err, order, calls, failed, regResult, regWaiting,
                 bankVars, readVars, boundedVars, lockVars, probe>>

\* time.Since(start) of a call, in units of the clock.
Elapsed == 1

\* Finish as it would be if the span counted every finished call as a
\* failure.
FinishCountsAll(p) ==
  /\ pc[p] = "finish"
  /\ totalDuration' = totalDuration + Elapsed
  /\ failures' = failures + 1
  /\ err' = [err EXCEPT ![p] = Nil]
  /\ pc' = [pc EXCEPT ![p] = "idle"]
  /\ UNCHANGED <<orchVars, attempts, ctx, idx, publishes, aborts,
                 startVersion, log, order, calls, failed, regResult, regWaiting, bankVars,
                 readVars, boundedVars, lockVars, probe>>

\* The deferred finish(err) of the telemetry span, after which the call has
\* returned err to its caller.
Finish(p) ==
  /\ pc[p] = "finish"
  /\ totalDuration' = totalDuration + Elapsed
  /\ failures' = IF err[p] # Nil THEN failures + 1 ELSE failures
  /\ err' = [err EXCEPT ![p] = Nil]
  /\ pc' = [pc EXCEPT ![p] = "idle"]
  /\ UNCHANGED <<orchVars, attempts, ctx, idx, publishes, aborts,
                 startVersion, log, order, calls, failed, regResult, regWaiting, bankVars,
                 readVars, boundedVars, lockVars, probe>>

\* The two counters as one Snapshot() with no call running reads them.
MetricsSnapshot == [attempts |-> attempts, failures |-> failures]

\* RegisterBank(nil) fails before the lock is touched.
RegisterNil ==
  /\ regResult' = NilBankErr
  /\ regWaiting' = FALSE
  /\ UNCHANGED <<orchVars, teleVars, pc, ctx, err, idx, publishes, aborts,
                 startVersion, log, order, calls, failed, bankVars, readVars, boundedVars, lockVars, probe>>

\* RegisterBank as it would be if the new bank were put in front of the list.
RegisterBankPrepends ==
  /\ Len(banks) < MaxBanks
  /\ LockFree
  /\ banks' = <<Len(banks) + 1>> \o banks
  /\ regResult' = Nil
  /\ regWaiting' = FALSE
  /\ UNCHANGED <<mu, version, teleVars, pc, ctx, err, idx, publishes, aborts,
                 startVersion, log, order, calls, failed, bankVars, readVars, boundedVars, lockVars, probe>>

\* RegisterBank(bank) appends under the lock; the new bank gets the next id.
\* RegisterBank as it would be if it appended without taking o.mu.
RegisterBankUnlocked ==
  /\ Len(banks) < MaxBanks
  /\ banks' = Append(banks, Len(banks) + 1)
  /\ regResult' = Nil
  /\ regWaiting' = FALSE
  /\ UNCHANGED <<mu, version, teleVars, pc, ctx, err, idx, publishes, aborts,
                 startVersion, log, order, calls, failed, bankVars, readVars, boundedVars, lockVars, probe>>

RegisterBank ==
  /\ Len(banks) < MaxBanks
  /\ LockFree
  /\ banks' = Append(banks, Len(banks) + 1)
  /\ regResult' = Nil
  /\ regWaiting' = FALSE
  /\ UNCHANGED <<mu, version, teleVars, pc, ctx, err, idx, publishes, aborts,
                 startVersion, log, order, calls, failed, bankVars, readVars, boundedVars, lockVars, probe>>

CommitStep(p) ==
  \/ Begin(p)
  \/ CancelCtx(p)
  \/ Lock(p)
  \/ LoopCheck(p)
  \/ Abort(p)
  \/ ObserveErr(p)
  \/ PostCheck(p)
  \/ Observe(p)
  \/ Publish(p)
  \/ Bump(p)
  \/ Unlock(p)
  \/ Finish(p)

Next ==
  \/ \E p \in Procs : CommitStep(p)
  \/ \E p \in Procs : Empty(p)
  \/ \E p \in Procs : Prepare(p)
  \/ RegisterNil
  \/ RegisterBank

Spec == Init /\ [][Next]_vars

\* ----------------------------------------------------------- register banks
\* registerBank.PrepareCommit, run under b.mu: without a pending state it
\* returns an empty publish and a nil abort, otherwise it takes the pending
\* state as staged and returns the closures over it.
RegisterPrepareResult(b) ==
  IF ~hasPending[b]
    THEN [publish |-> Callback(b, "func", 0), abort |-> Callback(b, "nil", 0),
          err |-> Nil, hasPending |-> hasPending]
    ELSE [publish |-> Callback(b, "register", pending[b]),
          abort |-> Callback(b, "register", pending[b]),
          err |-> Nil, hasPending |-> [hasPending EXCEPT ![b] = FALSE]]

PrepareRegister(p) ==
  /\ pc[p] = "prepare"
  /\ LET b == banks[idx[p]]
         r == RegisterPrepareResult(b)
     IN /\ AfterPrepare(p, b, r.publish, r.abort, r.err)
        /\ hasPending' = r.hasPending
  /\ UNCHANGED <<orchVars, teleVars, ctx, startVersion, order,
                 calls, failed, regResult, regWaiting, visible, pending, queueVars, clientVars,
                 ghostVars, readVars, boundedVars, lockVars, probe>>

Left == 1
Right == 2

\* registerBank.snapshot: the visible state, read under b.mu.
Snapshot(b) == visible[b]

\* b.updatePending(state) on a bank state.
UpdatePending(has, pend, b, s) ==
  [hasPending |-> [has EXCEPT ![b] = TRUE], pending |-> [pend EXCEPT ![b] = s]]

\* The two writers of the integration test: each stages the next version on
\* its bank, and the test joins both before it starts a commit, so no
\* CommitAll is running while they write.
WritersUpdate ==
  /\ \A p \in Procs : pc[p] = "idle"
  /\ Snapshot(Left) + 1 <= MaxState
  /\ LET next == Snapshot(Left) + 1
         l == UpdatePending(hasPending, pending, Left, next)
         r == UpdatePending(l.hasPending, l.pending, Right, next)
     IN /\ pending' = r.pending
        /\ hasPending' = r.hasPending
  /\ UNCHANGED <<orchVars, teleVars, pc, ctx, err, idx, publishes, aborts,
                 startVersion, log, order, calls, failed, regResult, regWaiting,
                 visible, queueVars, clientVars, ghostVars, readVars, boundedVars, lockVars, probe>>

\* performModbusRead(left, right): left.snapshot() ...
ReadLeft ==
  /\ rpc \in {"left", "done"}
  /\ pair' = [left |-> Snapshot(Left), right |-> 0]
  /\ rpc' = "right"
  /\ UNCHANGED <<orchVars, teleVars, pc, ctx, err, idx, publishes, aborts,
                 startVersion, log, order, calls, failed, regResult, regWaiting,
                 bankVars, boundedVars, lockVars, probe>>

\* ... and then right.snapshot().
ReadRight ==
  /\ rpc = "right"
  /\ pair' = [pair EXCEPT !.right = Snapshot(Right)]
  /\ rpc' = "done"
  /\ UNCHANGED <<orchVars, teleVars, pc, ctx, err, idx, publishes, aborts,
                 startVersion, log, order, calls, failed, regResult, regWaiting,
                 bankVars, boundedVars, lockVars, probe>>

\* NewCommitOrchestrator(leftBank, rightBank) of the integration test.
InitReaders ==
  /\ InitCommon
  /\ bq = NewQueue(0, "OverflowError")
  /\ banks = <<Left, Right>>

NextReaders ==
  \/ \E p \in Procs : CommitStep(p)
  \/ \E p \in Procs : PrepareRegister(p)
  \/ WritersUpdate
  \/ ReadLeft
  \/ ReadRight

SpecReaders == InitReaders /\ [][NextReaders]_vars

\* ---------------------------------------------------------- segmented queue
\* PushBackPending as it would be if MaxLen were enforced at push time: a
\* push onto a pending segment of MaxLen values is dropped.
PushBackPendingBounded(b) ==
  /\ produced < MaxPush
  /\ LET r == pushBack(qPending[b], nodes, produced + 1, produced + 1)
         full == length(qPending[b]) >= MaxVisible
     IN /\ qPending' = IF full THEN qPending ELSE [qPending EXCEPT ![b] = r.d]
        /\ nodes' = IF full THEN nodes ELSE r.heap
  /\ produced' = produced + 1
  /\ UNCHANGED <<orchVars, teleVars, callVars, regVars, qVisible, qStaged,
                 consumed, readVars, boundedVars, lockVars, probe>>

\* sq.PushBackPending(value): the writers push their sequence numbers, so
\* every value is pushed once and names the node that carries it.
PushBackPending(b) ==
  /\ produced < MaxPush
  /\ LET r == pushBack(qPending[b], nodes, produced + 1, produced + 1)
     IN /\ qPending' = [qPending EXCEPT ![b] = r.d]
        /\ nodes' = r.heap
  /\ produced' = produced + 1
  /\ UNCHANGED <<orchVars, teleVars, callVars, regVars, qVisible, qStaged,
                 consumed, readVars, boundedVars, lockVars, probe>>

\* sq.PushFrontPending(value)
PushFrontPending(b) ==
  /\ produced < MaxPush
  /\ LET r == pushFront(qPending[b], nodes, produced + 1, produced + 1)
     IN /\ qPending' = [qPending EXCEPT ![b] = r.d]
        /\ nodes' = r.heap
  /\ produced' = produced + 1
  /\ UNCHANGED <<orchVars, teleVars, callVars, regVars, qVisible, qStaged,
                 consumed, readVars, boundedVars, lockVars, probe>>

\* sq.PopFront(): a reader takes the head of visible, if there is one.
PopFront(b) ==
  /\ LET r == popFront(qVisible[b], nodes)
     IN /\ qVisible' = [qVisible EXCEPT ![b] = r.d]
        /\ nodes' = r.heap
        /\ consumed' = IF r.ok THEN consumed \cup {r.value} ELSE consumed
  /\ UNCHANGED <<orchVars, teleVars, callVars, regVars, qPending, qStaged,
                 produced, readVars, boundedVars, lockVars, probe>>

\* sq.PopBack()
PopBack(b) ==
  /\ LET r == popBack(qVisible[b], nodes)
     IN /\ qVisible' = [qVisible EXCEPT ![b] = r.d]
        /\ nodes' = r.heap
        /\ consumed' = IF r.ok THEN consumed \cup {r.value} ELSE consumed
  /\ UNCHANGED <<orchVars, teleVars, callVars, regVars, qPending, qStaged,
                 produced, readVars, boundedVars, lockVars, probe>>

\* sq.LenVisible()
LenVisible(b) == length(qVisible[b])

\* Commit as it would be if visible were spliced onto pending and the
\* result made the visible segment.
CommitPendingFirst(b) ==
  /\ LET r == appendLocked(qPending[b], qVisible[b], nodes)
     IN /\ qVisible' = [qVisible EXCEPT ![b] = r.d]
        /\ qPending' = [qPending EXCEPT ![b] = r.other]
        /\ nodes' = r.heap
  /\ UNCHANGED <<orchVars, teleVars, callVars, regVars, qStaged,
                 clientVars, readVars, boundedVars, lockVars, probe>>

\* sq.Commit(): under sq.mu and both deque mutexes, pending is spliced onto
\* visible.
Commit(b) ==
  /\ LET r == appendLocked(qVisible[b], qPending[b], nodes)
     IN /\ qVisible' = [qVisible EXCEPT ![b] = r.d]
        /\ qPending' = [qPending EXCEPT ![b] = r.other]
        /\ nodes' = r.heap
  /\ UNCHANGED <<orchVars, teleVars, callVars, regVars, qStaged,
                 clientVars, readVars, boundedVars, lockVars, probe>>

\* PrepareCommit as it would be if the context were not looked at: it
\* detaches pending and returns callbacks together with the context's error.
PrepareCommitDetaches(b, ctxErr, k) ==
  [publish |-> Callback(b, "queue", k),
   abort |-> Callback(b, "queue", k),
   err |-> ctxErr,
   pending |-> [qPending EXCEPT ![b] = newDeque],
   staged |-> [qStaged EXCEPT ![b] =
                 IF k > Len(@) THEN Append(@, qPending[b])
                 ELSE [@ EXCEPT ![k] = qPending[b]]]]

\* sq.PrepareCommit(ctx): with a cancelled context the context's error and
\* no callbacks; otherwise, under the staging mutex, the whole pending deque
\* is moved out into a fresh staged deque, pending is left empty, and the
\* publish and abort over that staged deque are returned.
\* k is the place of the new staged deque among the staged deques of b.
PrepareCommitResult(b, ctxErr, k) ==
  IF ctxErr # Nil
    THEN [publish |-> Callback(b, "nil", 0), abort |-> Callback(b, "nil", 0),
          err |-> ctxErr, pending |-> qPending, staged |-> qStaged]
    ELSE [publish |-> Callback(b, "queue", k),
          abort |-> Callback(b, "queue", k),
          err |-> Nil,
          pending |-> [qPending EXCEPT ![b] = newDeque],
          staged |-> [qStaged EXCEPT ![b] =
                        IF k > Len(@) THEN Append(@, qPending[b])
                        ELSE [@ EXCEPT ![k] = qPending[b]]]]

\* A staged deque that no collected callback of a running call refers to is
\* garbage, and its place is used again.
Referenced(b, k) ==
  \E p \in Procs : \E i \in 1..Len(publishes[p]) :
    publishes[p][i].fn = "queue" /\ publishes[p][i].bank = b
      /\ publishes[p][i].staged = k

FreeToken(b) ==
  LET free == {k \in 1..Len(qStaged[b]) : ~Referenced(b, k)}
  IN IF free = {} THEN Len(qStaged[b]) + 1
     ELSE CHOOSE k \in free : \A j \in free : k <= j

\* The orchestrator prepares a SegmentedQueue bank.
PrepareQueue(p) ==
  /\ pc[p] = "prepare"
  /\ LET b == banks[idx[p]]
         r == PrepareCommitResult(b, ctx[p].err, FreeToken(b))
     IN /\ AfterPrepare(p, b, r.publish, r.abort, r.err)
        /\ qPending' = r.pending
        /\ qStaged' = r.staged
  /\ UNCHANGED <<orchVars, teleVars, ctx, startVersion, order, calls, failed,
                 regResult, regWaiting, regVars, nodes, qVisible, clientVars, ghostVars,
                 readVars, boundedVars, lockVars, probe>>

\* ------------------------------------------------- clients of one queue
\* The queue of the package's unit tests: q := NewSegmentedQueue[int]().
Queues == {1}

Op(op, b, k, v) == [op |-> op, bank |-> b, token |-> k, value |-> v]

\* How often the callbacks of one PrepareCommit were called so far: never,
\* once, or more than once.
Called(h) == IF h < 2 THEN h + 1 ELSE 2

\* The calls of the unit tests on q, each recorded in lastOp.  taken holds,
\* for every PrepareCommit of a queue, the values it detached and that
\* neither callback has consumed yet.
ClientPushBack(b) ==
  /\ PushBackPending(b)
  /\ lastOp' = Op("pushBack", b, 0, produced + 1)
  /\ UNCHANGED <<snap, taken, spent>>

ClientPushFront(b) ==
  /\ PushFrontPending(b)
  /\ lastOp' = Op("pushFront", b, 0, produced + 1)
  /\ UNCHANGED <<snap, taken, spent>>

ClientPopFront(b) ==
  /\ PopFront(b)
  /\ lastOp' = Op("popFront", b, 0, 0)
  /\ UNCHANGED <<snap, taken, spent>>

ClientPopBack(b) ==
  /\ PopBack(b)
  /\ lastOp' = Op("popBack", b, 0, 0)
  /\ UNCHANGED <<snap, taken, spent>>

ClientCommit(b) ==
  /\ Commit(b)
  /\ lastOp' = Op("commit", b, 0, 0)
  /\ UNCHANGED <<snap, taken, spent>>

\* publish, abort, err := q.PrepareCommit(ctx), with a live or a cancelled
\* context.
ClientPrepare(b) ==
  /\ Len(qStaged[b]) < MaxTokens
  /\ \E e \in {Nil} \cup CtxErrs :
       LET r == PrepareCommitResult(b, e, Len(qStaged[b]) + 1)
       IN /\ qPending' = r.pending
          /\ qStaged' = r.staged
          /\ taken' = IF e = Nil
                        THEN [taken EXCEPT ![b] =
                                Append(@, Contents(qPending[b], nodes))]
                        ELSE taken
          /\ spent' = IF e = Nil
                        THEN [spent EXCEPT ![b] = Append(@, 0)]
                        ELSE spent
          /\ lastOp' = Op(IF e = Nil THEN "prepare" ELSE "cancelled", b,
                          r.publish.staged, 0)
  /\ UNCHANGED <<orchVars, teleVars, callVars, regVars, nodes, qVisible,
                 clientVars, snap, readVars, boundedVars, lockVars, probe>>

\* publish() of the k-th PrepareCommit of q, called any number of times.
ClientPublish(b, k) ==
  /\ k \in 1..Len(qStaged[b])
  /\ stagedPublish(b, k)
  /\ lastOp' = Op("publish", b, k, 0)
  /\ taken' = [taken EXCEPT ![b][k] = <<>>]
  /\ spent' = [spent EXCEPT ![b][k] = Called(@)]
  /\ UNCHANGED <<orchVars, teleVars, callVars, regVars, clientVars, snap,
                 readVars, boundedVars, lockVars, probe>>

\* abort() of the k-th PrepareCommit of q.
ClientAbort(b, k) ==
  /\ k \in 1..Len(qStaged[b])
  /\ stagedAbort(b, k)
  /\ lastOp' = Op("abort", b, k, 0)
  /\ taken' = [taken EXCEPT ![b][k] = <<>>]
  /\ spent' = [spent EXCEPT ![b][k] = Called(@)]
  /\ UNCHANGED <<orchVars, teleVars, callVars, regVars, clientVars, snap,
                 readVars, boundedVars, lockVars, probe>>

InitQueue ==
  /\ InitCommon
  /\ bq = NewQueue(0, "OverflowError")
  /\ banks = <<>>

NextQueue ==
  \/ \E b \in Queues : ClientPushBack(b)
  \/ \E b \in Queues : ClientPushFront(b)
  \/ \E b \in Queues : ClientPopFront(b)
  \/ \E b \in Queues : ClientPopBack(b)
  \/ \E b \in Queues : ClientCommit(b)
  \/ \E b \in Queues : ClientPrepare(b)
  \/ \E b \in Queues, k \in 1..MaxTokens : ClientPublish(b, k)
  \/ \E b \in Queues, k \in 1..MaxTokens : ClientAbort(b, k)

SpecQueue == InitQueue /\ [][NextQueue]_vars

\* --------------------------------------- segmented queues with Options
\* type DropPolicy
DropPolicies == {"DropOldest", "DropNewest"}

\* Two queues made with WithOptions(Options{MaxLen, DropPolicy}): queue 1
\* drops its oldest values, queue 2 its newest.
BoundedQueues == {1, 2}

Options(b) ==
  [MaxLen |-> MaxVisible,
   DropPolicy |-> IF b = 1 THEN "DropOldest" ELSE "DropNewest"]

\* Overflow handling that takes from the head whatever the policy is.
RECURSIVE enforceOverflowAtHead(_, _, _)
enforceOverflowAtHead(d, heap, opts) ==
  IF opts.MaxLen > 0 /\ length(d) > opts.MaxLen
    THEN LET r == popFront(d, heap)
         IN enforceOverflowAtHead(r.d, r.heap, opts)
    ELSE [d |-> d, heap |-> heap]

\* Overflow handling at publish time: while visible is longer than MaxLen,
\* its head (DropOldest) or its tail (DropNewest) is removed.
RECURSIVE enforceOverflow(_, _, _)
enforceOverflow(d, heap, opts) ==
  IF opts.MaxLen > 0 /\ length(d) > opts.MaxLen
    THEN LET r == IF opts.DropPolicy = "DropOldest"
                    THEN popFront(d, heap) ELSE popBack(d, heap)
         IN enforceOverflow(r.d, r.heap, opts)
    ELSE [d |-> d, heap |-> heap]

\* sq.Commit() of a queue with Options: the splice, then the overflow
\* handling.
CommitOverflow(b) ==
  /\ LET r == appendLocked(qVisible[b], qPending[b], nodes)
         t == enforceOverflow(r.d, r.heap, Options(b))
     IN /\ qVisible' = [qVisible EXCEPT ![b] = t.d]
        /\ qPending' = [qPending EXCEPT ![b] = r.other]
        /\ nodes' = t.heap
  /\ lastOp' = Op("commit", b, 0, 0)
  /\ UNCHANGED <<orchVars, teleVars, callVars, regVars, qStaged, clientVars,
                 snap, taken, spent, readVars, boundedVars, lockVars, probe>>

\* publish() of the k-th PrepareCommit of a queue with Options.
PublishOverflow(b, k) ==
  /\ k \in 1..Len(qStaged[b])
  /\ LET r == appendLocked(qVisible[b], qStaged[b][k], nodes)
         t == enforceOverflow(r.d, r.heap, Options(b))
     IN /\ qVisible' = [qVisible EXCEPT ![b] = t.d]
        /\ qStaged' = [qStaged EXCEPT ![b][k] = r.other]
        /\ nodes' = t.heap
  /\ lastOp' = Op("publish", b, k, 0)
  /\ taken' = [taken EXCEPT ![b][k] = <<>>]
  /\ spent' = [spent EXCEPT ![b][k] = Called(@)]
  /\ UNCHANGED <<orchVars, teleVars, callVars, regVars, qPending, clientVars,
                 snap, readVars, boundedVars, lockVars, probe>>

\* One test makes one queue, q: banks holds which of the two it is.
TestQueue(b) == banks = <<b>>

InitOverflow ==
  /\ InitCommon
  /\ bq = NewQueue(0, "OverflowError")
  /\ \E b \in BoundedQueues : TestQueue(b)

NextOverflow ==
  \/ \E b \in BoundedQueues : TestQueue(b) /\ ClientPushBack(b)
  \/ \E b \in BoundedQueues : TestQueue(b) /\ ClientPushFront(b)
  \/ \E b \in BoundedQueues : TestQueue(b) /\ ClientPopFront(b)
  \/ \E b \in BoundedQueues : TestQueue(b) /\ ClientPopBack(b)
  \/ \E b \in BoundedQueues : TestQueue(b) /\ CommitOverflow(b)
  \/ \E b \in BoundedQueues : TestQueue(b) /\ ClientPrepare(b)
  \/ \E b \in BoundedQueues, k \in 1..MaxTokens :
       TestQueue(b) /\ PublishOverflow(b, k)

SpecOverflow == InitOverflow /\ [][NextOverflow]_vars

\* ------------------------------------------- orchestrator over two queues
\* The state of every queue as a writer finds it right after its push.
Seen ==
  [version |-> version,
   visible |-> [b \in BankIds |-> Contents(qVisible'[b], nodes')],
   pending |-> [b \in BankIds |-> Contents(qPending'[b], nodes')]]

\* The writers push to the registered queues while no commit holds the
\* writer lock.
Registered(b) == \E k \in 1..Len(banks) : banks[k] = b

WriterPushBack(b) ==
  /\ Registered(b)
  /\ LockFree
  /\ PushBackPending(b)
  /\ snap' = Seen
  /\ UNCHANGED <<lastOp, taken, spent>>

WriterPushFront(b) ==
  /\ Registered(b)
  /\ LockFree
  /\ PushFrontPending(b)
  /\ snap' = Seen
  /\ UNCHANGED <<lastOp, taken, spent>>

\* One coordinator calls CommitAll on NewCommitOrchestrator(q1, q2), an
\* orchestrator over two segmented queues.
Coordinators == {1}

InitQueueBanks ==
  /\ InitCommon
  /\ bq = NewQueue(0, "OverflowError")
  /\ banks = <<1, 2>>

NextQueueBanks ==
  \/ \E p \in Coordinators : CommitStep(p)
  \/ \E p \in Coordinators : PrepareQueue(p)
  \/ \E b \in BankIds : WriterPushBack(b)
  \/ \E b \in BankIds : WriterPushFront(b)

SpecQueueBanks == InitQueueBanks /\ [][NextQueueBanks]_vars

\* ------------------------------------- banks that fail with callbacks
\* A Bank is any implementation of PrepareCommit: these banks return a
\* publish and an abort closure every time, with a nil error or together
\* with an error of their own.
FaultyResults(b) ==
  { [publish |-> Callback(b, "func", 0), abort |-> Callback(b, "func", 0),
     err |-> Nil],
    [publish |-> Callback(b, "func", 0), abort |-> Callback(b, "func", 0),
     err |-> BankErr(b)] }

\* bank.PrepareCommit(ctx) of such a bank, and the rest of the iteration.
PrepareFaulty(p) ==
  /\ pc[p] = "prepare"
  /\ \E r \in FaultyResults(banks[idx[p]]) :
       AfterPrepare(p, banks[idx[p]], r.publish, r.abort, r.err)
  /\ UNCHANGED <<orchVars, teleVars, ctx, startVersion, order,
                 calls, failed, regResult, regWaiting, bankVars, readVars, boundedVars, lockVars, probe>>

\* One coordinator calls CommitAll on an orchestrator over two such banks.
InitFaulty ==
  /\ InitCommon
  /\ bq = NewQueue(0, "OverflowError")
  /\ banks = <<1, 2>>

NextFaulty ==
  \/ \E p \in Coordinators : CommitStep(p)
  \/ \E p \in Coordinators : PrepareFaulty(p)

SpecFaulty == InitFaulty /\ [][NextFaulty]_vars

\* ------------------------------------ registration during a commit
\* o.RegisterBank(bank) is called: from here on the call waits for o.mu.
RegisterCalled ==
  /\ ~regWaiting
  /\ Len(banks) < MaxBanks
  /\ regWaiting' = TRUE
  /\ UNCHANGED <<orchVars, teleVars, pc, ctx, err, idx, publishes, aborts,
                 startVersion, log, order, calls, failed, regResult,
                 bankVars, readVars, boundedVars, lockVars, probe>>

\* The waiting call gets o.mu, appends the bank and returns.
RegisterLocked ==
  /\ regWaiting
  /\ RegisterBank

\* One coordinator calls CommitAll on NewCommitOrchestrator(bank1) while
\* another goroutine registers further banks.
InitRegister ==
  /\ InitCommon
  /\ bq = NewQueue(0, "OverflowError")
  /\ banks = <<1>>

NextRegister ==
  \/ \E p \in Coordinators : CommitStep(p)
  \/ \E p \in Coordinators : PrepareFaulty(p)
  \/ RegisterCalled
  \/ RegisterLocked

SpecRegister == InitRegister /\ [][NextRegister]_vars

\* ------------------------------------------------ progress of the callers
\* Two goroutines call CommitAll on NewCommitOrchestrator() while a third
\* registers banks; as many calls are made in all as there are callers.
Callers == {1, 2}

Call(p) ==
  /\ calls < Cardinality(Callers)
  /\ Begin(p)

\* The steps of a call that has the lock, up to its return: the callbacks
\* and the observer return, so each step is taken once it can be.
Run(p) ==
  \/ Empty(p)
  \/ LoopCheck(p)
  \/ PrepareFaulty(p)
  \/ Abort(p)
  \/ ObserveErr(p)
  \/ PostCheck(p)
  \/ Observe(p)
  \/ Publish(p)
  \/ Bump(p)
  \/ Unlock(p)
  \/ Finish(p)

InitProgress ==
  /\ InitCommon
  /\ bq = NewQueue(0, "OverflowError")
  /\ banks = <<>>

NextProgress ==
  \/ \E p \in Callers : Call(p)
  \/ \E p \in Callers : CancelCtx(p)
  \/ \E p \in Callers : Lock(p)
  \/ \E p \in Callers : Run(p)
  \/ RegisterCalled
  \/ RegisterLocked

\* sync.Mutex hands the lock to a goroutine that keeps waiting for it, and
\* the scheduler runs every goroutine that can run.
Fairness ==
  /\ \A p \in Callers : WF_vars(Run(p))
  /\ \A p \in Callers : SF_vars(Lock(p))
  /\ SF_vars(RegisterLocked)

SpecProgress == InitProgress /\ [][NextProgress]_vars /\ Fairness

\* ------------------------------------------- reading and resetting metrics
\* A goroutine calls Reset() and Snapshot() on the default metrics while
\* CommitAll calls run.  Each atomic Store and Load is a step of its own.
\* Reset(): m.totalDuration.Store(0)
ResetTotal ==
  /\ probe.at = "idle"
  /\ totalDuration' = 0
  /\ probe' = [probe EXCEPT !.at = "reset.attempts", !.returned = FALSE,
                            !.resetAt = calls]
  /\ UNCHANGED <<orchVars, callVars, bankVars, readVars, boundedVars,
                 lockVars, attempts, failures>>

\* Reset(): m.attempts.Store(0)
ResetAttempts ==
  /\ probe.at = "reset.attempts"
  /\ attempts' = 0
  /\ probe' = [probe EXCEPT !.at = "reset.failures"]
  /\ UNCHANGED <<orchVars, callVars, bankVars, readVars, boundedVars,
                 lockVars, totalDuration, failures>>

\* Reset(): m.failures.Store(0), and Reset returns
ResetFailures ==
  /\ probe.at = "reset.failures"
  /\ failures' = 0
  /\ probe' = [probe EXCEPT !.at = "idle"]
  /\ UNCHANGED <<orchVars, callVars, bankVars, readVars, boundedVars,
                 lockVars, totalDuration, attempts>>

\* Snapshot(): attempts = m.attempts.Load()
SnapshotAttempts ==
  /\ probe.at = "idle"
  /\ probe' = [probe EXCEPT !.at = "snapshot.failures",
                            !.quiet = (probe.resetAt = calls),
                            !.returned = FALSE,
                            !.got = [attempts |-> attempts, failures |-> 0,
                                     average |-> 0]]
  /\ UNCHANGED <<orchVars, callVars, bankVars, readVars, boundedVars,
                 lockVars, teleVars>>

\* Snapshot(): failures = m.failures.Load()
SnapshotFailures ==
  /\ probe.at = "snapshot.failures"
  /\ probe' = [probe EXCEPT !.at = "snapshot.total", !.got.failures = failures]
  /\ UNCHANGED <<orchVars, callVars, bankVars, readVars, boundedVars,
                 lockVars, teleVars>>

\* Snapshot(): total := m.totalDuration.Load(), the average, and the return
SnapshotTotal ==
  /\ probe.at = "snapshot.total"
  /\ probe' = [probe EXCEPT
                 !.at = "idle",
                 !.returned = TRUE,
                 !.quiet = (probe.quiet /\ probe.resetAt = calls),
                 !.got.average = IF probe.got.attempts = 0 THEN 0
                                 ELSE totalDuration \div probe.got.attempts]
  /\ UNCHANGED <<orchVars, callVars, bankVars, readVars, boundedVars,
                 lockVars, teleVars>>

InitMetrics ==
  /\ InitCommon
  /\ bq = NewQueue(0, "OverflowError")
  /\ banks = <<1>>

NextMetrics ==
  \/ \E p \in Coordinators : CommitStep(p)
  \/ \E p \in Coordinators : PrepareFaulty(p)
  \/ ResetTotal
  \/ ResetAttempts
  \/ ResetFailures
  \/ SnapshotAttempts
  \/ SnapshotFailures
  \/ SnapshotTotal

SpecMetrics == InitMetrics /\ [][NextMetrics]_vars

\* ------------------------------------------- the locks of one queue
\* The operations of q := NewSegmentedQueue[int]() lock by lock.  Commit
\* takes sq.mu, then visible.mu, then pending.mu; a push takes pending.mu
\* and a pop or LenVisible takes visible.mu.
TheQueue == 1

\* A goroutine calls its operation and comes to the first Lock().
StartOp(t) ==
  /\ tpc[t] = "idle"
  /\ t \in Pushers => produced < MaxPush
  /\ tpc' = [tpc EXCEPT ![t] = IF t \in Committers THEN "sq.mu"
                                ELSE IF t \in Pushers THEN "pending.mu"
                                ELSE "visible.mu"]
  /\ UNCHANGED <<orchVars, teleVars, callVars, bankVars, readVars,
                 boundedVars, lk, probe>>

\* sq.mu.Lock() of Commit
LockStaging(t) ==
  /\ tpc[t] = "sq.mu"
  /\ lk.sq = NoGoroutine
  /\ lk' = [lk EXCEPT !.sq = t]
  /\ tpc' = [tpc EXCEPT ![t] = "visible.mu"]
  /\ UNCHANGED <<orchVars, teleVars, callVars, bankVars, readVars,
                 boundedVars, probe>>

\* sq.visible.mu.Lock() of Commit, d.mu.Lock() of a pop or of length
LockVisible(t) ==
  /\ tpc[t] = "visible.mu"
  /\ lk.visible = NoGoroutine
  /\ lk' = [lk EXCEPT !.visible = t]
  /\ tpc' = [tpc EXCEPT ![t] = IF t \in Committers THEN "pending.mu" ELSE "pop"]
  /\ UNCHANGED <<orchVars, teleVars, callVars, bankVars, readVars,
                 boundedVars, probe>>

\* sq.pending.mu.Lock() of Commit, d.mu.Lock() of a push
LockPending(t) ==
  /\ tpc[t] = "pending.mu"
  /\ lk.pending = NoGoroutine
  /\ lk' = [lk EXCEPT !.pending = t]
  /\ tpc' = [tpc EXCEPT ![t] = IF t \in Committers THEN "splice" ELSE "push"]
  /\ UNCHANGED <<orchVars, teleVars, callVars, bankVars, readVars,
                 boundedVars, probe>>

\* sq.visible.appendLocked(sq.pending), with the three locks held
Splice(t) ==
  /\ tpc[t] = "splice"
  /\ LET r == appendLocked(qVisible[TheQueue], qPending[TheQueue], nodes)
     IN /\ qVisible' = [qVisible EXCEPT ![TheQueue] = r.d]
        /\ qPending' = [qPending EXCEPT ![TheQueue] = r.other]
        /\ nodes' = r.heap
  /\ tpc' = [tpc EXCEPT ![t] = "pending.Unlock"]
  /\ UNCHANGED <<orchVars, teleVars, callVars, regVars, qStaged, clientVars,
                 ghostVars, readVars, boundedVars, lk, probe>>

\* sq.pending.mu.Unlock()
UnlockPending(t) ==
  /\ tpc[t] = "pending.Unlock"
  /\ lk' = [lk EXCEPT !.pending = NoGoroutine]
  /\ tpc' = [tpc EXCEPT ![t] = "visible.Unlock"]
  /\ UNCHANGED <<orchVars, teleVars, callVars, bankVars, readVars,
                 boundedVars, probe>>

\* Commit as it would be if it returned without sq.visible.mu.Unlock().
UnlockVisibleSkipped(t) ==
  /\ tpc[t] = "visible.Unlock"
  /\ lk' = lk
  /\ tpc' = [tpc EXCEPT ![t] = "sq.Unlock"]
  /\ UNCHANGED <<orchVars, teleVars, callVars, bankVars, readVars,
                 boundedVars, probe>>

\* sq.visible.mu.Unlock()
UnlockVisible(t) ==
  /\ tpc[t] = "visible.Unlock"
  /\ lk' = [lk EXCEPT !.visible = NoGoroutine]
  /\ tpc' = [tpc EXCEPT ![t] = "sq.Unlock"]
  /\ UNCHANGED <<orchVars, teleVars, callVars, bankVars, readVars,
                 boundedVars, probe>>

\* the deferred sq.mu.Unlock(), and Commit returns
UnlockStaging(t) ==
  /\ tpc[t] = "sq.Unlock"
  /\ lk' = [lk EXCEPT !.sq = NoGoroutine]
  /\ tpc' = [tpc EXCEPT ![t] = "idle"]
  /\ UNCHANGED <<orchVars, teleVars, callVars, bankVars, readVars,
                 boundedVars, probe>>

\* pushBack or pushFront on pending with pending.mu held, then the deferred
\* Unlock
PushLocked(t) ==
  /\ tpc[t] = "push"
  /\ \E back \in BOOLEAN :
       LET r == IF back
                  THEN pushBack(qPending[TheQueue], nodes, produced + 1, produced + 1)
                  ELSE pushFront(qPending[TheQueue], nodes, produced + 1, produced + 1)
       IN /\ qPending' = [qPending EXCEPT ![TheQueue] = r.d]
          /\ nodes' = r.heap
  /\ produced' = produced + 1
  /\ lk' = [lk EXCEPT !.pending = NoGoroutine]
  /\ tpc' = [tpc EXCEPT ![t] = "idle"]
  /\ UNCHANGED <<orchVars, teleVars, callVars, regVars, qVisible, qStaged,
                 consumed, ghostVars, readVars, boundedVars, probe>>

\* popFront, popBack or length on visible with visible.mu held, then the
\* deferred Unlock
PopLocked(t) ==
  /\ tpc[t] = "pop"
  /\ \E op \in {"popFront", "popBack", "length"} :
       LET r == IF op = "popFront" THEN popFront(qVisible[TheQueue], nodes)
                ELSE IF op = "popBack" THEN popBack(qVisible[TheQueue], nodes)
                ELSE [d |-> qVisible[TheQueue], heap |-> nodes,
                      value |-> length(qVisible[TheQueue]), ok |-> FALSE]
       IN /\ qVisible' = [qVisible EXCEPT ![TheQueue] = r.d]
          /\ nodes' = r.heap
          /\ consumed' = IF r.ok THEN consumed \cup {r.value} ELSE consumed
  /\ lk' = [lk EXCEPT !.visible = NoGoroutine]
  /\ tpc' = [tpc EXCEPT ![t] = "idle"]
  /\ UNCHANGED <<orchVars, teleVars, callVars, regVars, qPending, qStaged,
                 produced, ghostVars, readVars, boundedVars, probe>>

InitLocks ==
  /\ InitCommon
  /\ bq = NewQueue(0, "OverflowError")
  /\ banks = <<>>

\* A step of goroutine t past a Lock() or with a lock in its hands.
Advance(t) ==
  \/ LockStaging(t)
  \/ LockVisible(t)
  \/ LockPending(t)
  \/ Splice(t)
  \/ UnlockPending(t)
  \/ UnlockVisible(t)
  \/ UnlockStaging(t)
  \/ PushLocked(t)
  \/ PopLocked(t)

NextLocks ==
  \/ \E t \in Goroutines : StartOp(t)
  \/ \E t \in Goroutines : Advance(t)

\* The scheduler runs every goroutine that can run, and sync.Mutex hands a
\* lock to a goroutine that keeps waiting for it (a waiter of more than 1ms
\* is served first).
FairLocks == \A t \in Goroutines : SF_vars(Advance(t))

SpecLocks == InitLocks /\ [][NextLocks]_vars /\ FairLocks

\* ------------------------------------------- clients of the committable queue
\* The calls of the README's tests on q := NewQueue[int](maxLength, policy),
\* each recorded with what it returned.  The pushed values are the sequence
\* numbers of the pushes.
Returned(op, value, ok, e, n) ==
  [op |-> op, value |-> value, ok |-> ok, err |-> e, n |-> n]

\* dropped, err := q.Push(v)
QueuePushCall ==
  /\ bqPushed < MaxQueuePush
  /\ LET r == Push(bq, bqPushed + 1, bqPushed + 1)
     IN /\ bq' = r.q
        /\ bqOp' = Returned("push", bqPushed + 1, r.dropped, r.err, 0)
  /\ bqPushed' = bqPushed + 1
  /\ UNCHANGED <<orchVars, teleVars, callVars, bankVars, readVars, lockVars, probe,
                 bqPoppedBack>>

\* moved := q.Commit()
QueueCommitCall ==
  /\ LET r == QueueCommit(bq)
     IN /\ bq' = r.q
        /\ bqOp' = Returned("commit", 0, FALSE, Nil, r.moved)
  /\ UNCHANGED <<orchVars, teleVars, callVars, bankVars, readVars, lockVars, probe, bqPushed,
                 bqPoppedBack>>

\* v, ok := q.PopFront()
QueuePopFrontCall ==
  /\ LET r == QueuePopFront(bq)
     IN /\ bq' = r.q
        /\ bqOp' = Returned("popFront", r.value, r.ok, Nil, 0)
  /\ UNCHANGED <<orchVars, teleVars, callVars, bankVars, readVars, lockVars, probe, bqPushed,
                 bqPoppedBack>>

\* v, ok := q.PopBack()
QueuePopBackCall ==
  /\ LET r == QueuePopBack(bq)
     IN /\ bq' = r.q
        /\ bqOp' = Returned("popBack", r.value, r.ok, Nil, 0)
        /\ bqPoppedBack' = (bqPoppedBack \/ r.ok)
  /\ UNCHANGED <<orchVars, teleVars, callVars, bankVars, readVars, lockVars, probe, bqPushed>>

\* NewQueue[int](maxLength, policy) for every policy and every maxLength
\* from MinQueueLen to MaxQueueLen; 0 and below make a queue without a
\* bound.
InitBounded ==
  /\ InitCommon
  /\ banks = <<>>
  /\ \E m \in MinQueueLen..MaxQueueLen, policy \in OverflowPolicies :
       bq = NewQueue(m, policy)

NextBounded ==
  \/ QueuePushCall
  \/ QueueCommitCall
  \/ QueuePopFrontCall
  \/ QueuePopBackCall

SpecBounded == InitBounded /\ [][NextBounded]_vars

\* ------------------------------------------------------------------ claims
Prepares(p) == Select(log[p], "prepare")
Aborts(p) == Select(log[p], "abort")
Publishes(p) == Select(log[p], "publish")
Observers(p) == Select(log[p], "observer")

Positions(p, ev) == {k \in 1..Len(log[p]) : log[p][k].ev = ev}

\* The call of p has run its last statement and fixed the value it returns,
\* err[p]; only the deferred calls are left.
AtReturn(p) == pc[p] = "unlock"

\* The prepare events of p's call that returned an error.
FailedPrepares(p) ==
  LET prep == Prepares(p) IN {k \in 1..Len(prep) : prep[k].err # Nil}

RECURSIVE Repeat(_, _)
Repeat(s, m) == IF m = 0 THEN <<>> ELSE s \o Repeat(s, m - 1)

\* C1 (as stated): every CommitAll that returns success has incremented the
\* version by exactly 1, and every CommitAll that returns an error has left
\* it unchanged.
C1_VersionIffSuccess ==
  \A p \in Procs :
    AtReturn(p) =>
      /\ err[p] = Nil => Version = startVersion[p] + 1
      /\ err[p] # Nil => Version = startVersion[p]

C1_AtReturn ==
  \A p \in Procs :
    AtReturn(p) =>
      /\ (err[p] = Nil /\ Len(banks) > 0) => Version = startVersion[p] + 1
      /\ (err[p] = Nil /\ Len(banks) = 0) => Version = startVersion[p]
      /\ err[p] # Nil => Version = startVersion[p]

\* C1 (amended): the version starts at 0 and never decreases; a CommitAll
\* that returns success over at least one registered bank has incremented it
\* by exactly 1; a CommitAll that returns success over no banks, or returns
\* an error, has left it unchanged.
C1_VersionMonotonic ==
  /\ Version = 0
  /\ []C1_AtReturn
  /\ [][version' = version \/ version' = version + 1]_vars

\* A second successful commit over registered banks is about to return.
C1_Witness ==
  \E p \in Procs :
    /\ AtReturn(p) /\ err[p] = Nil /\ Len(banks) > 0
    /\ startVersion[p] = 1 /\ Version = 2

C2_Mutex ==
  \A p, q \in Procs :
    /\ InCS(p) => mu = p
    /\ (InCS(p) /\ InCS(q)) => p = q

C2_CallbackUnderLock ==
  \A p \in Procs :
    (log'[p] # log[p] /\ log'[p] # <<>>) =>
      /\ mu = p
      /\ \A q \in Procs \ {p} : ~InCS(q) /\ log'[q] = log[q]

\* C2: at most one CommitAll is inside the critical section at any instant,
\* and every prepare, abort, observer and publish callback runs while its
\* call holds the lock and no other call is inside.
C2_Serialised == []C2_Mutex /\ [][C2_CallbackUnderLock]_vars

\* One call is inside its publish loop while another waits for the lock.
C2_Witness ==
  \E p, q \in Procs :
    /\ p # q
    /\ pc[p] = "publish" /\ Publishes(p) # <<>>
    /\ pc[q] = "lock"

\* Between commits the two banks show the same version: the writers stage
\* both banks alike and a commit publishes both banks or neither.
BanksAgreeWhenQuiet ==
  (\A p \in Procs : ~InCS(p)) => Snapshot(Left) = Snapshot(Right)

\* C3 (as stated): a reader that reads the left bank and then the right bank
\* sees both banks before a commit or both banks after it, so the two
\* versions it reads are equal.
C3_AllOrNothing == rpc = "done" => pair.left = pair.right

\* C4: when PrepareCommit fails at the k-th bank, the rollback invokes the
\* aborts of the banks before it exactly once each, last prepared first; the
\* failing bank gets neither publish nor abort, and no later bank is prepared
\* or aborted.
C4_AbortTotality ==
  \A p \in Procs :
    (FailedPrepares(p) # {} /\ pc[p] \in {"observe_err", "unlock"}) =>
      LET k == Len(Prepares(p))
      IN /\ FailedPrepares(p) = {k}
         /\ BanksOf(Prepares(p)) = SubSeq(banks, 1, k)
         /\ BanksOf(Aborts(p)) = Reverse(SubSeq(banks, 1, k - 1))
         /\ Publishes(p) = <<>>

\* The third of three banks failed and two aborts have run.
C4_Witness ==
  \E p \in Procs :
    /\ AtReturn(p)
    /\ Len(banks) = 3
    /\ FailedPrepares(p) = {3}
    /\ Len(Aborts(p)) = 2

\* C5: a CommitAll call that returns an error has invoked no publish.
C5_NoPublishOnError ==
  \A p \in Procs :
    (AtReturn(p) /\ err[p] # Nil) => Publishes(p) = <<>>

\* A call whose banks all prepared returned the cancellation error.
C5_Witness ==
  \E p \in Procs :
    /\ AtReturn(p)
    /\ err[p] = Canceled
    /\ Len(Prepares(p)) = Len(banks)
    /\ FailedPrepares(p) = {}
    /\ Len(Aborts(p)) >= 2

\* C6: while a call is inside the critical section and has not yet
\* incremented the version, in particular while a publish is outstanding,
\* Version() returns the value it had when the call took the lock; when the
\* version has moved, every publish of the call has returned.
C6_VersionGated ==
  \A p \in Procs :
    /\ (InCS(p) /\ pc[p] # "unlock") => Version = startVersion[p]
    /\ (InCS(p) /\ Version # startVersion[p]) =>
         /\ Version = startVersion[p] + 1
         /\ Len(Publishes(p)) = Len(publishes[p])
         /\ Len(publishes[p]) = Len(banks)

\* The first publish has returned, the second has not.
C6_Witness ==
  \E p \in Procs :
    /\ pc[p] = "publish"
    /\ Len(Publishes(p)) = 1
    /\ Len(publishes[p]) >= 2
    /\ Version = startVersion[p]

C7_PerCall ==
  \A p \in Procs :
    Publishes(p) # <<>> =>
      /\ FailedPrepares(p) = {}
      /\ \A i \in Positions(p, "prepare"), j \in Positions(p, "publish") : i < j
      /\ BanksOf(Prepares(p)) = SubSeq(banks, 1, Len(Prepares(p)))
      /\ InCS(p) => Len(Prepares(p)) = Len(banks)
      /\ BanksOf(Publishes(p)) = SubSeq(banks, 1, Len(Publishes(p)))
      /\ Len(Publishes(p)) <= Len(Prepares(p))
      /\ AtReturn(p) => Len(Publishes(p)) = Len(Prepares(p))

C7_Global ==
  LET n == Len(banks)
  IN (/\ \A p \in Procs : pc[p] \notin {"publish", "bump"}
      /\ n > 0
      /\ Len(order) >= n
      /\ SubSeq(order, 1, n) = banks)
     => order = Repeat(banks, Version)

\* C7: a successful CommitAll invokes the publish of every prepared bank
\* exactly once, in registration order, after every PrepareCommit has
\* returned without error; and when the bank list has been the same for
\* every successful commit, the publishes of all calls together are the
\* bank list repeated once per successful commit.
C7_PublishOrder == C7_PerCall /\ C7_Global

\* Two calls have each completed a successful commit over two banks.
C7_Witness ==
  /\ \A p \in Procs : pc[p] = "idle"
  /\ calls = 2
  /\ Len(banks) = 2
  /\ Version = 2
  /\ order = <<1, 2, 1, 2>>

\* C8: an attached observer is invoked at most once while the call runs and
\* exactly once by the time the call returns, with the very value the call
\* returns (so with nil iff the call succeeds); without an observer nothing
\* is notified.
C8_ObserverOnce ==
  \A p \in Procs :
    /\ Len(Observers(p)) <= 1
    /\ ~ctx[p].observer => Observers(p) = <<>>
    /\ (ctx[p].observer /\ AtReturn(p)) =>
         /\ Len(Observers(p)) = 1
         /\ Observers(p)[1].err = err[p]
         /\ (Observers(p)[1].err = Nil) <=> (err[p] = Nil)

\* A cancelled call with an observer has returned.
C8_Witness ==
  \E p \in Procs :
    /\ AtReturn(p)
    /\ ctx[p].observer
    /\ err[p] = Canceled
    /\ Prepares(p) # <<>>
    /\ Observers(p) = <<Event("observer", 0, Canceled)>>

\* C9: observer(nil) comes after every prepare of the call and before every
\* publish, when all banks have been prepared; observer(err) comes after an
\* abort for every collected callback and is the last callback of the call.
C9_ObserverOrder ==
  \A p \in Procs :
    \A k \in Positions(p, "observer") :
      IF log[p][k].err = Nil
        THEN /\ \A i \in Positions(p, "prepare") : i < k
             /\ \A j \in Positions(p, "publish") : k < j
             /\ Aborts(p) = <<>>
             /\ FailedPrepares(p) = {}
             /\ InCS(p) => Len(Prepares(p)) = Len(banks)
        ELSE /\ \A i \in Positions(p, "abort") : i < k
             /\ k = Len(log[p])
             /\ Len(Aborts(p)) = Len(Prepares(p)) - Cardinality(FailedPrepares(p))
             /\ Publishes(p) = <<>>

\* A caller was notified of success after two prepares and before two
\* publishes.
C9_Witness ==
  \E p \in Procs :
    /\ AtReturn(p) /\ err[p] = Nil /\ ctx[p].observer
    /\ Len(Prepares(p)) >= 2
    /\ Len(Publishes(p)) >= 2

\* C10: a failing CommitAll returns the error of the bank whose
\* PrepareCommit failed, or else the error of its context, and the observer
\* receives that same value.
C10_ErrorIdentity ==
  \A p \in Procs :
    (AtReturn(p) /\ err[p] # Nil) =>
      /\ IF FailedPrepares(p) # {}
           THEN \A k \in FailedPrepares(p) : err[p] = Prepares(p)[k].err
           ELSE err[p] = ctx[p].err
      /\ ctx[p].observer => Observers(p) = <<Event("observer", 0, err[p])>>

\* A bank failed with its own error although the context was cancelled too.
C10_Witness ==
  \E p \in Procs :
    /\ AtReturn(p)
    /\ err[p] = BankErr(2)
    /\ ctx[p].err = Canceled
    /\ ctx[p].observer

\* C11: a CommitAll on an orchestrator without banks returns success
\* whatever its context, notifies an attached observer once with nil and
\* leaves the version as it is; and as long as no bank is registered every
\* call is counted as an attempt, none as a failure, and the version is 0.
C11_EmptyFastPath ==
  /\ \A p \in Procs :
       (AtReturn(p) /\ Len(banks) = 0) =>
         /\ err[p] = Nil
         /\ Version = startVersion[p]
         /\ log[p] = IF ctx[p].observer
                       THEN <<Event("observer", 0, Nil)>> ELSE <<>>
  /\ Len(banks) = 0 =>
       /\ MetricsSnapshot.attempts = calls
       /\ MetricsSnapshot.failures = 0
       /\ failed = 0
       /\ Version = 0

\* A second call took the fast path with a cancelled context and an
\* observer, after the first had finished.
C11_Witness ==
  \E p \in Procs :
    /\ AtReturn(p) /\ Len(banks) = 0
    /\ ctx[p].observer /\ ctx[p].err = Canceled
    /\ MetricsSnapshot = [attempts |-> 2, failures |-> 0]
    /\ \A q \in Procs \ {p} : pc[q] = "idle"

\* The call of p has failed and its rollback is over: every collected abort
\* has run.
RolledBack(p) ==
  \/ pc[p] = "observe_err"
  \/ pc[p] = "unlock" /\ err[p] # Nil

C12_Check ==
  \A p \in Procs :
    (pc[p] = "loop" /\ ctx[p].err # Nil /\ pc'[p] # "loop") =>
      /\ pc'[p] = "abort"
      /\ err'[p] = ctx[p].err
      /\ log'[p] = log[p]

C12_Rollback ==
  \A p \in Procs :
    (RolledBack(p) /\ FailedPrepares(p) = {}
       /\ Len(Prepares(p)) < Len(banks)) =>
      LET i == Len(Prepares(p))
      IN /\ err[p] = ctx[p].err
         /\ BanksOf(Prepares(p)) = SubSeq(banks, 1, i)
         /\ BanksOf(Aborts(p)) = Reverse(SubSeq(banks, 1, i))
         /\ Publishes(p) = <<>>
         /\ Version = startVersion[p]

\* C12: when the context is already cancelled at the top of a loop
\* iteration, neither that bank nor a later one is prepared; the banks
\* prepared so far are aborted last first and the call returns the context's
\* error with the version unchanged.
C12_PrePrepareCancel == []C12_Rollback /\ [][C12_Check]_vars

\* The context was found cancelled before the third of three banks.
C12_Witness ==
  \E p \in Procs :
    /\ AtReturn(p) /\ err[p] = Canceled
    /\ Len(banks) = 3
    /\ BanksOf(Prepares(p)) = <<1, 2>> /\ FailedPrepares(p) = {}
    /\ BanksOf(Aborts(p)) = <<2, 1>>

C13_Check ==
  \A p \in Procs :
    (pc[p] = "postcheck" /\ ctx[p].err # Nil /\ pc'[p] # "postcheck") =>
      /\ pc'[p] = "abort"
      /\ err'[p] = ctx[p].err
      /\ idx'[p] = Len(banks)
      /\ log'[p] = log[p]

C13_Rollback ==
  \A p \in Procs :
    (RolledBack(p) /\ FailedPrepares(p) = {}
       /\ Len(Prepares(p)) = Len(banks)) =>
      /\ err[p] = ctx[p].err
      /\ BanksOf(Aborts(p)) = Reverse(banks)
      /\ Publishes(p) = <<>>
      /\ Version = startVersion[p]
      /\ (AtReturn(p) /\ ctx[p].observer) =>
           Observers(p) = <<Event("observer", 0, ctx[p].err)>>

\* C13: when every PrepareCommit succeeded and the context is cancelled at
\* the check after the loop, no publish runs, the abort of every bank runs
\* once, last bank first, the observer gets the context's error, the call
\* returns it and the version is unchanged.
C13_PostPrepareCancel == []C13_Rollback /\ [][C13_Check]_vars

\* Three banks prepared, the context was cancelled, three aborts ran.
C13_Witness ==
  \E p \in Procs :
    /\ AtReturn(p) /\ err[p] = Canceled /\ ctx[p].observer
    /\ BanksOf(Prepares(p)) = <<1, 2, 3>> /\ FailedPrepares(p) = {}
    /\ BanksOf(Aborts(p)) = <<3, 2, 1>>

\* The only bank's PrepareCommit returned the cancellation error.
S4(p) ==
  /\ AtReturn(p)
  /\ Len(banks) = 1
  /\ Prepares(p) = <<Event("prepare", 1, Canceled)>>

\* C14 (as stated): with one bank whose PrepareCommit cancels the context
\* and returns the cancellation error, no publish runs, the one collected
\* abort of that bank runs, the call returns the cancellation error, the
\* observer gets it and the version is unchanged.
C14_OneAbortRuns ==
  \A p \in Procs :
    S4(p) =>
      /\ Publishes(p) = <<>>
      /\ BanksOf(Aborts(p)) = <<1>>
      /\ err[p] = Canceled
      /\ ctx[p].observer => Observers(p) = <<Event("observer", 0, Canceled)>>
      /\ Version = startVersion[p]

\* C14 (amended): with one bank whose PrepareCommit cancels the context and
\* returns the cancellation error, no publish and no abort runs (the
\* callbacks of the failing bank are not collected), the call returns the
\* cancellation error, the observer gets it and the version is unchanged;
\* with a bank prepared before that one, as in
\* TestCommitAllCancelsContextDuringPreparation, the one collected abort,
\* that of the first bank, runs.
C14_NoAbortCollected ==
  \A p \in Procs :
    /\ S4(p) =>
         /\ Publishes(p) = <<>>
         /\ Aborts(p) = <<>>
         /\ err[p] = Canceled
         /\ ctx[p].observer =>
              Observers(p) = <<Event("observer", 0, Canceled)>>
         /\ Version = startVersion[p]
    /\ (AtReturn(p) /\ Len(banks) = 2
          /\ Prepares(p) = <<Event("prepare", 1, Nil),
                             Event("prepare", 2, Canceled)>>) =>
         /\ Publishes(p) = <<>>
         /\ BanksOf(Aborts(p)) = <<1>>
         /\ err[p] = Canceled
         /\ Version = startVersion[p]

\* The single bank cancelled the context of a call with an observer.
C14_Witness ==
  \E p \in Procs :
    /\ S4(p)
    /\ ctx[p].observer
    /\ Observers(p) = <<Event("observer", 0, Canceled)>>

\* C15: a CommitAll over segmented queues that returns an error, with no
\* push or pop while it ran, leaves the visible and the pending contents of
\* every queue, values and order, as the last push before the call left
\* them, and leaves the version as the call found it; once the error is
\* fixed as the value to return, the observer is not invoked again: the
\* deferred unlock and finish add no event to the call's record (the record
\* is dropped when the call is over).
C15_Restored ==
  \A p \in Coordinators :
    (AtReturn(p) /\ err[p] # Nil /\ snap.version = Version) =>
      /\ \A b \in BankIds :
           Registered(b) =>
             /\ Contents(qVisible[b], nodes) = snap.visible[b]
             /\ Contents(qPending[b], nodes) = snap.pending[b]
      /\ Version = startVersion[p]

C15_NoLateObserver ==
  \A p \in Coordinators :
    (pc[p] \in {"unlock", "finish"} /\ err[p] # Nil) =>
      (log'[p] = log[p] \/ log'[p] = <<>>)

C15_FailedCommitRestores == []C15_Restored /\ [][C15_NoLateObserver]_vars

\* After a first commit made 1 visible in queue 1 and two more pushes to its
\* pending segment, a second call prepared both queues, was cancelled, ran
\* both aborts and is about to return the cancellation error.
C15_Witness ==
  \E p \in Coordinators :
    /\ AtReturn(p)
    /\ err[p] = Canceled
    /\ Version = 1
    /\ snap.version = 1
    /\ Len(snap.visible[1]) = 1
    /\ Len(snap.pending[1]) = 2
    /\ BanksOf(Aborts(p)) = <<2, 1>>
    /\ \A i \in 1..Len(aborts[p]) : aborts[p][i].fn = "queue"

\* C16: RegisterBank(nil) returns the "nil bank" error and leaves the bank
\* list as it was; a RegisterBank that changes the list returns nil and adds
\* one bank, not registered before, at the end; every CommitAll prepares and
\* publishes the banks in the order of the list, so a bank comes after all
\* banks registered before it.
C16_Register ==
  /\ regResult' = NilBankErr => banks' = banks
  /\ banks' # banks =>
       /\ regResult' = Nil
       /\ \E b \in BankIds : ~Registered(b) /\ banks' = Append(banks, b)

C16_Order ==
  \A p \in Procs :
    LET prepared == BanksOf(Prepares(p))
        published == BanksOf(Publishes(p))
    IN /\ prepared = SubSeq(banks, 1, Len(prepared))
       /\ published = SubSeq(banks, 1, Len(published))
       /\ \A i, j \in 1..Len(prepared) : i < j => prepared[i] < prepared[j]
       /\ \A i, j \in 1..Len(published) : i < j => published[i] < published[j]

C16_RegisterBank == []C16_Order /\ [][C16_Register]_vars

\* Two banks were registered one after the other, a call has prepared and
\* published both in that order, and a RegisterBank(nil) since then has
\* returned the error and left the two banks.
C16_Witness ==
  /\ regResult = NilBankErr
  /\ banks = <<1, 2>>
  /\ \E p \in Procs :
       /\ BanksOf(Prepares(p)) = <<1, 2>>
       /\ BanksOf(Publishes(p)) = <<1, 2>>

\* C17: counted from the state a Reset leaves, every CommitAll call adds
\* exactly one to attempts when it starts and exactly one to failures when it
\* ends if and only if it returns an error: attempts is the number of calls
\* started, failures is the number of calls that have ended with an error,
\* and when no call is running Snapshot reports attempts = n, the number of
\* calls, and failures = f, the number of them that failed.
Returning(p) == pc[p] \in {"unlock", "finish"}

C17_Counts ==
  /\ MetricsSnapshot.attempts = calls
  /\ MetricsSnapshot.failures
       + Cardinality({p \in Procs : Returning(p) /\ err[p] # Nil}) = failed
  /\ (\A p \in Procs : pc[p] = "idle") =>
       MetricsSnapshot = [attempts |-> calls, failures |-> failed]

C17_Step ==
  /\ attempts' = IF calls' = calls + 1 THEN attempts + 1 ELSE attempts
  /\ failures' =
       IF \E p \in Procs : pc[p] = "finish" /\ pc'[p] = "idle" /\ err[p] # Nil
         THEN failures + 1 ELSE failures

C17_Telemetry == []C17_Counts /\ [][C17_Step]_vars

\* Two calls have been made and are over, one of them returned an error, and
\* the snapshot reports two attempts and one failure.
C17_Witness ==
  /\ \A p \in Procs : pc[p] = "idle"
  /\ calls = 2
  /\ failed = 1
  /\ MetricsSnapshot = [attempts |-> 2, failures |-> 1]

\* C18: on a queue without a MaxLen, PushBackPending puts its value behind
\* the pending contents and PushFrontPending puts it ahead of them, neither
\* touching visible; Commit() then leaves visible, front to back, as the
\* visible contents it found followed by the pending contents it found, and
\* leaves pending empty.
VisibleOf(b) == Contents(qVisible[b], nodes)
PendingOf(b) == Contents(qPending[b], nodes)

C18_Step ==
  \A b \in Queues :
    LET v == lastOp'.value
    IN /\ (lastOp'.bank = b /\ lastOp'.op = "pushBack") =>
            /\ PendingOf(b)' = Append(PendingOf(b), v)
            /\ VisibleOf(b)' = VisibleOf(b)
       /\ (lastOp'.bank = b /\ lastOp'.op = "pushFront") =>
            /\ PendingOf(b)' = <<v>> \o PendingOf(b)
            /\ VisibleOf(b)' = VisibleOf(b)
       /\ (lastOp'.bank = b /\ lastOp'.op = "commit") =>
            /\ VisibleOf(b)' = VisibleOf(b) \o PendingOf(b)
            /\ PendingOf(b)' = <<>>
            /\ LenVisible(b)' = Len(VisibleOf(b)) + Len(PendingOf(b))

C18_RoundTrip == [][C18_Step]_vars

\* 1 was pushed and committed; then 2 was pushed at the back and 3 at the
\* front of pending, and a Commit() with no PrepareCommit outstanding has
\* just made visible 1, 3, 2.
C18_Witness ==
  /\ lastOp = Op("commit", 1, 0, 0)
  /\ VisibleOf(1) = <<1, 3, 2>>
  /\ PendingOf(1) = <<>>
  /\ qStaged[1] = <<>>
  /\ consumed = {}

\* C19: PrepareCommit detaches the values pending at that moment and leaves
\* pending empty and visible untouched; the matching publish puts behind the
\* visible contents exactly the values that PrepareCommit detached, and the
\* values pushed since then stay in pending, where a later commit finds
\* them; no value is pending and visible at once.
StagedOf(b, k) == Contents(qStaged[b][k], nodes)

C19_Step ==
  \A b \in Queues : \A k \in 1..MaxTokens :
    /\ (lastOp'.bank = b /\ lastOp'.token = k /\ lastOp'.op = "prepare") =>
         /\ StagedOf(b, k)' = PendingOf(b)
         /\ PendingOf(b)' = <<>>
         /\ VisibleOf(b)' = VisibleOf(b)
    /\ (lastOp'.bank = b /\ lastOp'.token = k /\ lastOp'.op = "publish") =>
         /\ VisibleOf(b)' = VisibleOf(b) \o taken[b][k]
         /\ PendingOf(b)' = PendingOf(b)

C19_Apart ==
  \A b \in Queues :
    \A i \in 1..Len(VisibleOf(b)), j \in 1..Len(PendingOf(b)) :
      VisibleOf(b)[i] # PendingOf(b)[j]

C19_LatePushesExcluded == []C19_Apart /\ [][C19_Step]_vars

\* 1 and 2 were pushed, PrepareCommit returned, 3 was pushed, and publish has
\* just run: 1 and 2 are visible and 3 is still pending.
C19_Witness ==
  /\ lastOp = Op("publish", 1, 1, 0)
  /\ VisibleOf(1) = <<1, 2>>
  /\ PendingOf(1) = <<3>>
  /\ taken[1] = <<(<<>>)>>

\* C20: abort puts the values its PrepareCommit detached back in front of
\* the values pushed since, in their order, and leaves visible untouched;
\* whatever prepares, pushes, aborts, publishes, commits and pops have run,
\* every value pushed is in exactly one place, once: visible, pending, a
\* staged deque, or the hands of the reader that popped it; PopFront takes
\* the visible values front first, so a Commit and a drain after the abort
\* yield them in that order.
Count(s, v) == Cardinality({i \in 1..Len(s) : s[i] = v})

RECURSIVE StagedCount(_, _, _)
StagedCount(b, k, v) ==
  IF k = 0 THEN 0 ELSE Count(StagedOf(b, k), v) + StagedCount(b, k - 1, v)

C20_Conserved ==
  \A v \in 1..produced :
    LET held == Count(VisibleOf(1), v) + Count(PendingOf(1), v)
                  + StagedCount(1, Len(qStaged[1]), v)
    IN held = (IF v \in consumed THEN 0 ELSE 1)

C20_Step ==
  \A b \in Queues : \A k \in 1..MaxTokens :
    /\ (lastOp'.bank = b /\ lastOp'.token = k /\ lastOp'.op = "abort") =>
         /\ PendingOf(b)' = taken[b][k] \o PendingOf(b)
         /\ VisibleOf(b)' = VisibleOf(b)
    /\ (lastOp'.bank = b /\ lastOp'.op = "popFront"
          /\ VisibleOf(b) # <<>>) =>
         /\ VisibleOf(b)' = Tail(VisibleOf(b))
         /\ consumed' = consumed \cup {Head(VisibleOf(b))}
         /\ PendingOf(b)' = PendingOf(b)

C20_AbortPreservesPending == []C20_Conserved /\ [][C20_Step]_vars

\* 1 and 2 were pushed, PrepareCommit returned, 3 was pushed, and abort has
\* just run: pending holds 1, 2, 3 and nothing is visible.
C20_Witness ==
  /\ lastOp = Op("abort", 1, 1, 0)
  /\ PendingOf(1) = <<1, 2, 3>>
  /\ VisibleOf(1) = <<>>
  /\ consumed = {}

\* C21: once publish or abort of a PrepareCommit has been called, every
\* later call of either of the two changes neither the visible nor the
\* pending contents, and the staged deque of a PrepareCommit whose callback
\* has been called is empty.
C21_Step ==
  \A b \in Queues : \A k \in 1..MaxTokens :
    (lastOp'.bank = b /\ lastOp'.token = k
       /\ lastOp'.op \in {"publish", "abort"} /\ spent[b][k] >= 1) =>
      /\ VisibleOf(b)' = VisibleOf(b)
      /\ PendingOf(b)' = PendingOf(b)
      /\ LenVisible(b)' = LenVisible(b)

C21_Used ==
  \A b \in Queues : \A k \in 1..Len(qStaged[b]) :
    spent[b][k] >= 1 => StagedOf(b, k) = <<>> /\ length(qStaged[b][k]) = 0

C21_ConsumedOnce == []C21_Used /\ [][C21_Step]_vars

\* 1 and 2 were pushed and detached by PrepareCommit, 3 was pushed, and the
\* callbacks were called more than once, abort last: 1 and 2 are either
\* visible or pending, not both, and 3 is pending behind them.
C21_Witness ==
  /\ lastOp = Op("abort", 1, 1, 0)
  /\ spent[1] = <<2>>
  /\ produced = 3
  /\ consumed = {}
  /\ \/ VisibleOf(1) = <<1, 2>> /\ PendingOf(1) = <<3>>
     \/ VisibleOf(1) = <<>> /\ PendingOf(1) = <<1, 2, 3>>

\* C22: PrepareCommit with a context that is already cancelled returns the
\* context's error and no publish and no abort, stages nothing, and leaves
\* the visible and the pending contents as they were, so that a later
\* Commit finds the pending values.
C22_Result ==
  \A b \in Queues : \A e \in CtxErrs :
    LET r == PrepareCommitResult(b, e, Len(qStaged[b]) + 1)
    IN /\ r.err = e
       /\ r.publish.fn = "nil"
       /\ r.abort.fn = "nil"
       /\ r.pending = qPending
       /\ r.staged = qStaged

C22_Step ==
  \A b \in Queues :
    (lastOp'.bank = b /\ lastOp'.op = "cancelled") =>
      /\ VisibleOf(b)' = VisibleOf(b)
      /\ PendingOf(b)' = PendingOf(b)
      /\ qStaged' = qStaged
      /\ nodes' = nodes

C22_CancelledPrepare == []C22_Result /\ [][C22_Step]_vars

\* 1 is visible, 2 and 3 are pending, and a PrepareCommit with a cancelled
\* context has just returned; no PrepareCommit has staged anything.
C22_Witness ==
  /\ lastOp = Op("cancelled", 1, 0, 0)
  /\ VisibleOf(1) = <<1>>
  /\ PendingOf(1) = <<2, 3>>
  /\ qStaged[1] = <<>>

\* C23: a queue with MaxLen > 0 has at most MaxLen visible values after any
\* Commit and any publish; of the visible values followed by the spliced
\* ones, DropOldest keeps the last MaxLen and DropNewest the first MaxLen,
\* in order.
KeepLast(s, n) == IF Len(s) <= n THEN s ELSE SubSeq(s, Len(s) - n + 1, Len(s))
KeepFirst(s, n) == IF Len(s) <= n THEN s ELSE SubSeq(s, 1, n)

Kept(b, merged) ==
  IF Options(b).DropPolicy = "DropOldest"
    THEN KeepLast(merged, Options(b).MaxLen)
    ELSE KeepFirst(merged, Options(b).MaxLen)

C23_Step ==
  \A b \in BoundedQueues :
    /\ (lastOp'.bank = b /\ lastOp'.op = "commit") =>
         /\ VisibleOf(b)' = Kept(b, VisibleOf(b) \o PendingOf(b))
         /\ LenVisible(b)' <= Options(b).MaxLen
    /\ \A k \in 1..MaxTokens :
         (lastOp'.bank = b /\ lastOp'.op = "publish" /\ lastOp'.token = k) =>
           /\ VisibleOf(b)' = Kept(b, VisibleOf(b) \o StagedOf(b, k))
           /\ LenVisible(b)' <= Options(b).MaxLen

C23_WitnessOldest ==
  /\ lastOp = Op("commit", 1, 0, 0)
  /\ produced = 3
  /\ consumed = {}
  /\ VisibleOf(1) = <<2, 3>>
  /\ PendingOf(1) = <<>>

\* C24: with writers pushing, Commit callers and PopFront readers running
\* concurrently on a queue without a bound, a PopFront that returns a value
\* returns one that was pushed and that no earlier pop returned; and once
\* everything pushed was committed and the queue is drained, every pushed
\* value has been returned.
C24_Pop ==
  \A b \in Queues :
    (lastOp'.bank = b /\ lastOp'.op = "popFront") =>
      LET r == popFront(qVisible[b], nodes)
      IN IF r.ok
           THEN /\ r.value \in 1..produced
                /\ r.value \notin consumed
                /\ consumed' = consumed \cup {r.value}
                /\ LenVisible(b)' = LenVisible(b) - 1
           ELSE /\ consumed' = consumed
                /\ LenVisible(b) = 0

C24_Drained ==
  \A b \in Queues :
    (/\ VisibleOf(b) = <<>>
     /\ PendingOf(b) = <<>>
     /\ \A k \in 1..Len(qStaged[b]) : StagedOf(b, k) = <<>>) =>
      consumed = 1..produced

C24_ExactlyOnce == []C24_Drained /\ [][C24_Pop]_vars

\* Three values were pushed and committed and the third PopFront has just
\* drained the queue.
C24_Witness ==
  /\ lastOp = Op("popFront", 1, 0, 0)
  /\ produced = 3
  /\ consumed = {1, 2, 3}
  /\ VisibleOf(1) = <<>>
  /\ PendingOf(1) = <<>>
  /\ qStaged[1] = <<>>

\* C25: while a CommitAll is executing, no bank's reader-visible state
\* changes: a step that begins and ends inside a call of CommitAll leaves
\* the snapshot of every bank as it was, so that the readers stay on the
\* last published snapshot until the call has finished.
Executing(p) == pc[p] # "idle"

C25_Step ==
  (\E p \in Procs : Executing(p) /\ Executing(p)') =>
    \A b \in {Left, Right} : Snapshot(b)' = Snapshot(b)

C25_ReadersStayOnSnapshot == [][C25_Step]_vars

\* C26: the pops of the committable Queue work on the committed region
\* only.  PopFront returns and removes the oldest committed element and
\* PopBack the newest committed one, whatever uncommitted tail follows it;
\* both return nothing when CommittedLen() is 0, even if there are
\* uncommitted elements; and no pop changes the uncommitted elements or
\* UncommittedLen().
Front(s) == SubSeq(s, 1, Len(s) - 1)
Last(s) == s[Len(s)]

C26_Regions ==
  /\ Len(SnapshotCommitted(bq)) = CommittedLen(bq)
  /\ Len(Uncommitted(bq)) = UncommittedLen(bq)
  /\ QueueLen(bq) = CommittedLen(bq) + UncommittedLen(bq)

C26_Step ==
  bqOp'.op \in {"popFront", "popBack"} =>
    /\ Uncommitted(bq)' = Uncommitted(bq)
    /\ UncommittedLen(bq)' = UncommittedLen(bq)
    /\ IF CommittedLen(bq) = 0
         THEN /\ ~bqOp'.ok
              /\ bq' = bq
         ELSE /\ bqOp'.ok
              /\ CommittedLen(bq)' = CommittedLen(bq) - 1
              /\ IF bqOp'.op = "popFront"
                   THEN /\ bqOp'.value = Head(SnapshotCommitted(bq))
                        /\ SnapshotCommitted(bq)' = Tail(SnapshotCommitted(bq))
                   ELSE /\ bqOp'.value = Last(SnapshotCommitted(bq))
                        /\ SnapshotCommitted(bq)' = Front(SnapshotCommitted(bq))

C26_PopsCommittedOnly == []C26_Regions /\ [][C26_Step]_vars

\* 1 and 2 are committed, 3 and 4 are not, and PopBack has just returned 2.
C26_Witness ==
  /\ bqOp = Returned("popBack", 2, TRUE, Nil, 0)
  /\ SnapshotCommitted(bq) = <<1>>
  /\ Uncommitted(bq) = <<3, 4>>

\* Only uncommitted elements exist and a PopFront has returned nothing.
C26_WitnessAbsent ==
  /\ bqOp = Returned("popFront", 0, FALSE, Nil, 0)
  /\ CommittedLen(bq) = 0
  /\ Uncommitted(bq) = <<1, 2>>

\* C27: a Push on a full Queue (maxLength > 0 and Len() = maxLength)
\* returns ErrQueueFull under OverflowError and dropped = true without an
\* error under OverflowDropNewest; either way the queue is left as it was,
\* so the Commit that follows moves what was uncommitted before the Push and
\* nothing more.
Full(q) == q.maxLength > 0 /\ QueueLen(q) = q.maxLength

C27_Step ==
  (bqOp'.op = "push" /\ Full(bq)
     /\ bq.overflowPolicy \in {"OverflowError", "OverflowDropNewest"}) =>
    /\ bq' = bq
    /\ SnapshotCommitted(bq)' = SnapshotCommitted(bq)
    /\ Uncommitted(bq)' = Uncommitted(bq)
    /\ QueueCommit(bq').moved = UncommittedLen(bq)
    /\ IF bq.overflowPolicy = "OverflowError"
         THEN bqOp'.err = ErrQueueFull /\ ~bqOp'.ok
         ELSE bqOp'.err = Nil /\ bqOp'.ok

C27_FullQueueRejects == [][C27_Step]_vars

\* Capacity 2, OverflowDropNewest: 1 was pushed and committed, 2 was pushed,
\* and the push of 3 has just returned dropped = true.
C27_Witness ==
  /\ bq.overflowPolicy = "OverflowDropNewest"
  /\ bq.maxLength = 2
  /\ bqOp = Returned("push", 3, TRUE, Nil, 0)
  /\ SnapshotCommitted(bq) = <<1>>
  /\ Uncommitted(bq) = <<2>>

\* Capacity 2, OverflowError: the push of 3 has just returned ErrQueueFull.
C27_WitnessError ==
  /\ bq.overflowPolicy = "OverflowError"
  /\ bq.maxLength = 2
  /\ bqOp = Returned("push", 3, FALSE, ErrQueueFull, 0)
  /\ SnapshotCommitted(bq) = <<1, 2>>

\* C28: a Push on a full Queue under OverflowDropOldest removes the head
\* (a committed element if there is one, the oldest uncommitted one
\* otherwise), appends the new value as the newest uncommitted element,
\* returns dropped = true and leaves Len() at maxLength.  The committed view
\* after a following Commit is what the queue held without that head,
\* followed by the new value.
LastPushed(n, m) == [i \in 1..m |-> n - m + i]

ViewAfterCommit(q) == SnapshotCommitted(QueueCommit(q).q)

DropsOldest == bqOp'.op = "push" /\ Full(bq)
                 /\ bq.overflowPolicy = "OverflowDropOldest"

C28_Push ==
  DropsOldest =>
    /\ bqOp'.ok /\ bqOp'.err = Nil
    /\ QueueLen(bq)' = bq.maxLength
    /\ IF CommittedLen(bq) > 0
         THEN /\ SnapshotCommitted(bq)' = Tail(SnapshotCommitted(bq))
              /\ Uncommitted(bq)' = Append(Uncommitted(bq), bqOp'.value)
         ELSE /\ SnapshotCommitted(bq)' = <<>>
              /\ Uncommitted(bq)' = Append(Tail(Uncommitted(bq)), bqOp'.value)
    /\ ViewAfterCommit(bq)' =
         Append(Tail(SnapshotCommitted(bq) \o Uncommitted(bq)), bqOp'.value)

\* ... and that view is the last maxLength pushed values in push order, ...
C28_LastPushedStep ==
  DropsOldest => ViewAfterCommit(bq)' = LastPushed(bqPushed', bq.maxLength)

C28_Original == [][C28_Push /\ C28_LastPushedStep]_vars

\* ... as long as no PopBack has taken an element from the queue.
C28_Step ==
  /\ C28_Push
  /\ ~bqPoppedBack => C28_LastPushedStep

C28_DropOldest == [][C28_Step]_vars

\* Capacity 3: 1 is committed, 2 and 3 are not, and the push of 4 has
\* dropped 1.
C28_Witness ==
  /\ bq.overflowPolicy = "OverflowDropOldest"
  /\ bq.maxLength = 3
  /\ bqOp = Returned("push", 4, TRUE, Nil, 0)
  /\ ~bqPoppedBack
  /\ SnapshotCommitted(bq) = <<>>
  /\ Uncommitted(bq) = <<2, 3, 4>>

\* Capacity 3: 1, 2, 3 committed, PopBack took 3, and the pushes of 4 and 5
\* have left 2, 4, 5, which are not the last three values pushed.
C28_WitnessPopBack ==
  /\ bq.overflowPolicy = "OverflowDropOldest"
  /\ bq.maxLength = 3
  /\ bqOp = Returned("push", 5, TRUE, Nil, 0)
  /\ bqPoppedBack
  /\ ViewAfterCommit(bq) = <<2, 4, 5>>

\* C29: Commit() of the committable Queue returns the value UncommittedLen()
\* had before the call; afterwards UncommittedLen() is 0, CommittedLen() is
\* Len(), and the committed view is the former committed view followed by
\* the former uncommitted elements, in their order.  A Commit with nothing
\* uncommitted returns 0 and changes nothing.
C29_Step ==
  bqOp'.op = "commit" =>
    /\ bqOp'.n = UncommittedLen(bq)
    /\ UncommittedLen(bq)' = 0
    /\ Uncommitted(bq)' = <<>>
    /\ QueueLen(bq)' = QueueLen(bq)
    /\ CommittedLen(bq)' = QueueLen(bq)'
    /\ SnapshotCommitted(bq)' = SnapshotCommitted(bq) \o Uncommitted(bq)
    /\ UncommittedLen(bq) = 0 => (bqOp'.n = 0 /\ bq' = bq)

C29_Commit == [][C29_Step]_vars

\* 1 was committed, 2 and 3 were pushed after it, and a Commit has just
\* returned 2.
C29_Witness ==
  /\ bqOp = Returned("commit", 0, FALSE, Nil, 2)
  /\ bqPushed = 3
  /\ SnapshotCommitted(bq) = <<1, 2, 3>>
  /\ UncommittedLen(bq) = 0

\* A Commit with nothing uncommitted has just returned 0.
C29_WitnessNothing ==
  /\ bqOp = Returned("commit", 0, FALSE, Nil, 0)
  /\ SnapshotCommitted(bq) = <<1, 2>>
  /\ UncommittedLen(bq) = 0

\* C30: when a bank's PrepareCommit returns an error together with a
\* publish and an abort, both are discarded: the call collects neither,
\* invokes neither, and goes on as if that bank had not been prepared.
FailedPrepare(p, b) ==
  \E i \in 1..Len(log[p]) : log[p][i] = Event("prepare", b, BankErr(b))

C30_Discarded ==
  \A p \in Coordinators : \A b \in BankIds :
    FailedPrepare(p, b) =>
      /\ \A i \in 1..Len(log[p]) :
           log[p][i].ev \in {"publish", "abort"} => log[p][i].bank # b
      /\ \A i \in 1..Len(publishes[p]) : publishes[p][i].bank # b
      /\ \A i \in 1..Len(aborts[p]) : aborts[p][i].bank # b
      /\ Publishes(p) = <<>>
      /\ err[p] = BankErr(b)

\* Bank 1 was prepared, bank 2 returned its error together with callbacks,
\* and the rollback has run the abort of bank 1 and nothing of bank 2.
C30_Witness ==
  /\ pc[1] = "observe_err"
  /\ Prepares(1) = <<Event("prepare", 1, Nil), Event("prepare", 2, BankErr(2))>>
  /\ Aborts(1) = <<Event("abort", 1, Nil)>>
  /\ Publishes(1) = <<>>

\* C31: once the check of the context after the prepare loop has passed, a
\* cancellation of the context no longer stops the call: from the observer
\* notification on, the call goes through every publish to the increment
\* of the version, runs no abort, and returns nil with the version one
\* higher than when it took the lock.
Publishing == {"observe", "publish", "bump"}

C31_Step ==
  \A p \in Coordinators :
    pc[p] \in Publishing =>
      /\ pc'[p] \in Publishing \cup {"unlock"}
      /\ Aborts(p)' = <<>>
      /\ pc'[p] = "unlock" =>
           /\ BanksOf(Publishes(p)') = BanksOf(publishes[p])
           /\ Len(publishes[p]) = Len(banks)
           /\ err'[p] = Nil
           /\ version' = startVersion[p] + 1

C31_Returned ==
  \A p \in Coordinators :
    (AtReturn(p) /\ Len(Publishes(p)) > 0) =>
      /\ BanksOf(Publishes(p)) = banks
      /\ Aborts(p) = <<>>
      /\ err[p] = Nil
      /\ version = startVersion[p] + 1

C31_LateCancelIgnored == []C31_Returned /\ [][C31_Step]_vars

\* The context was cancelled after the check: the call is about to return
\* nil with both banks published, no abort and the version incremented.
C31_Witness ==
  /\ pc[1] = "unlock"
  /\ ctx[1].err = Canceled
  /\ err[1] = Nil
  /\ BanksOf(Publishes(1)) = <<1, 2>>
  /\ Aborts(1) = <<>>
  /\ version = startVersion[1] + 1

\* C32: a RegisterBank called while a CommitAll holds the writer lock takes
\* effect only after that CommitAll has released it: the bank list does not
\* change while the lock is held, so the banks a call prepares, publishes
\* and aborts are, in order, the bank list as it was when the call took the
\* lock.
C32_Step ==
  /\ mu # NoProc => banks' = banks
  /\ banks' # banks => regWaiting /\ ~regWaiting'

Succeeded(s) == {k \in 1..Len(s) : s[k].err = Nil}

C32_Banks ==
  \A p \in Coordinators :
    mu = p =>
      LET prepared == BanksOf(Prepares(p))
          published == BanksOf(Publishes(p))
          aborted == BanksOf(Aborts(p))
          ok == Cardinality(Succeeded(Prepares(p)))
      IN /\ prepared = SubSeq(banks, 1, Len(prepared))
         /\ published = SubSeq(banks, 1, Len(published))
         /\ Len(published) > 0 => prepared = banks
         /\ (AtReturn(p) /\ err[p] = Nil) => published = banks
         /\ aborted = SubSeq(Reverse(SubSeq(banks, 1, ok)), 1, Len(aborted))

C32_RegistrationSerialised == []C32_Banks /\ [][C32_Step]_vars

\* A RegisterBank was called and is still waiting while the call that holds
\* the lock is about to return, having prepared and published the one bank
\* that was registered when it took the lock.
C32_Witness ==
  /\ regWaiting
  /\ mu = 1
  /\ AtReturn(1)
  /\ banks = <<1>>
  /\ BanksOf(Prepares(1)) = <<1>>
  /\ BanksOf(Publishes(1)) = <<1>>

\* After the return the waiting registration has taken effect, and the next
\* call has prepared both banks.
C32_WitnessLater ==
  /\ ~regWaiting
  /\ mu = 1
  /\ calls = 2
  /\ order = <<1>>
  /\ banks = <<1, 2>>
  /\ BanksOf(Prepares(1)) = <<1, 2>>

\* C33: every call of CommitAll returns and releases the writer lock,
\* whichever way it returns, so that a CommitAll or a RegisterBank that
\* waits for the lock gets it.
Returned33(p) == pc[p] = "idle" /\ mu # p

C33_Returns ==
  /\ \A p \in Callers : ~Returned33(p) ~> Returned33(p)
  /\ regWaiting ~> ~regWaiting

\* Caller 1 has released the lock on its way out with an error while
\* caller 2 and a RegisterBank are waiting for the lock.
C33_Witness ==
  /\ pc[1] = "finish"
  /\ err[1] # Nil
  /\ mu = NoProc
  /\ pc[2] = "lock"
  /\ regWaiting

\* C34: from any state of a queue, Commit() and a successful PrepareCommit
\* followed at once by its publish leave the same visible and the same
\* pending contents: visible followed by what was pending, and nothing
\* pending.
C34_Same ==
  \A b \in Queues :
    LET k == Len(qStaged[b]) + 1
        commit == appendLocked(qVisible[b], qPending[b], nodes)
        prep == PrepareCommitResult(b, Nil, k)
        pub == appendLocked(qVisible[b], prep.staged[b][k], nodes)
    IN /\ prep.err = Nil
       /\ Contents(pub.d, pub.heap) = Contents(commit.d, commit.heap)
       /\ Contents(prep.pending[b], pub.heap) =
            Contents(commit.other, commit.heap)
       /\ Contents(commit.d, commit.heap) = VisibleOf(b) \o PendingOf(b)

C34_Step ==
  \A b \in Queues :
    /\ (lastOp'.bank = b /\ lastOp'.op = "commit") =>
         /\ VisibleOf(b)' = VisibleOf(b) \o PendingOf(b)
         /\ PendingOf(b)' = <<>>
    /\ \A k \in 1..MaxTokens :
         /\ (lastOp'.bank = b /\ lastOp'.op = "prepare" /\ lastOp'.token = k) =>
              /\ VisibleOf(b)' \o StagedOf(b, k)' = VisibleOf(b) \o PendingOf(b)
              /\ PendingOf(b)' = <<>>
         /\ (lastOp = Op("prepare", b, k, 0) /\ lastOp' = Op("publish", b, k, 0)) =>
              /\ VisibleOf(b)' = VisibleOf(b) \o StagedOf(b, k)
              /\ PendingOf(b)' = <<>>

C35_Step ==
  \A b \in BoundedQueues :
    LET v == lastOp'.value
    IN /\ (lastOp'.bank = b /\ lastOp'.op \in {"pushBack", "pushFront"}) =>
            /\ VisibleOf(b)' = VisibleOf(b)
            /\ LenVisible(b)' = LenVisible(b)
            /\ qStaged' = qStaged
            /\ PendingOf(b)' = IF lastOp'.op = "pushBack"
                                 THEN Append(PendingOf(b), v)
                                 ELSE <<v>> \o PendingOf(b)
       /\ (lastOp'.bank = b /\ lastOp'.op \in {"popFront", "popBack"}) =>
            /\ PendingOf(b)' = PendingOf(b)
            /\ qPending' = qPending
            /\ qStaged' = qStaged
            /\ Len(VisibleOf(b)') <= Len(VisibleOf(b))

C35_PushesTouchPendingOnly == [][C35_Step]_vars

\* Queue 1 has MaxLen 2: the third push has made pending longer than that
\* while nothing is visible.
C35_Witness ==
  /\ Options(1).MaxLen = 2
  /\ lastOp = Op("pushBack", 1, 0, 3)
  /\ PendingOf(1) = <<1, 2, 3>>
  /\ VisibleOf(1) = <<>>
  /\ LenVisible(1) = 0

\* A PopBack has taken 2 from the visible values while 3 stays pending.
C35_WitnessPop ==
  /\ lastOp = Op("popBack", 1, 0, 0)
  /\ VisibleOf(1) = <<1>>
  /\ PendingOf(1) = <<3>>
  /\ consumed = {2}

\* C36: with goroutines calling Commit, pushing and popping on one queue,
\* there is never a state in which goroutines are inside an operation and
\* every one of them waits for a lock, and every operation that was begun
\* completes.
Waits(t) ==
  \/ tpc[t] = "sq.mu" /\ lk.sq # NoGoroutine
  \/ tpc[t] = "visible.mu" /\ lk.visible # NoGoroutine
  \/ tpc[t] = "pending.mu" /\ lk.pending # NoGoroutine

Busy(t) == tpc[t] # "idle"

C36_NoDeadlock ==
  /\ (\E t \in Goroutines : Busy(t)) =>
       \E t \in Goroutines : Busy(t) /\ ~Waits(t)
  /\ \A t \in Goroutines : Waits(t) =>
       \E u \in Goroutines : u # t /\ Busy(u) /\ ~Waits(u)

C36_DeadlockFree ==
  /\ []C36_NoDeadlock
  /\ \A t \in Goroutines : Busy(t) ~> ~Busy(t)

\* One Commit holds sq.mu and visible.mu and waits for pending.mu, which
\* the pusher holds; the other Commit waits for sq.mu and the popper for
\* visible.mu.
C36_Witness ==
  /\ lk = [sq |-> 1, visible |-> 1, pending |-> 3]
  /\ tpc = <<"pending.mu", "sq.mu", "push", "visible.mu">>

\* C37: in every state of the committable Queue Len() = CommittedLen() +
\* UncommittedLen() and 0 <= UncommittedLen() <= Len(); the commit cursor
\* is nil exactly when UncommittedLen() = 0 and is otherwise the node at
\* position Len() - UncommittedLen() of the list (counted from 0), the
\* oldest uncommitted element; and SnapshotCommitted() is the first
\* CommittedLen() elements of the list, in order.
RECURSIVE C37_NodesFrom(_, _, _)
C37_NodesFrom(q, n, fuel) ==
  IF n = NilNode \/ fuel = 0 THEN <<>>
  ELSE <<n>> \o C37_NodesFrom(q, q.nodes[n].next, fuel - 1)

C37_Nodes(q) == C37_NodesFrom(q, q.head, MaxQueuePush + 1)

C37_Values(q) == [i \in 1..Len(C37_Nodes(q)) |-> q.nodes[C37_Nodes(q)[i]].value]

C37_Structure ==
  /\ QueueLen(bq) = CommittedLen(bq) + UncommittedLen(bq)
  /\ 0 <= UncommittedLen(bq)
  /\ UncommittedLen(bq) <= QueueLen(bq)
  /\ Len(C37_Nodes(bq)) = QueueLen(bq)
  /\ (bq.commit = NilNode) <=> (UncommittedLen(bq) = 0)
  /\ UncommittedLen(bq) > 0 =>
       bq.commit = C37_Nodes(bq)[QueueLen(bq) - UncommittedLen(bq) + 1]
  /\ SnapshotCommitted(bq) = SubSeq(C37_Values(bq), 1, CommittedLen(bq))

\* A queue of capacity 3 that dropped its oldest element: 2 is committed,
\* 3 and 4 are not, and the cursor is on the node of 3.
C37_Witness ==
  /\ bq.maxLength = 3
  /\ bq.overflowPolicy = "OverflowDropOldest"
  /\ C37_Values(bq) = <<2, 3, 4>>
  /\ CommittedLen(bq) = 1
  /\ bq.commit # NilNode
  /\ bq.nodes[bq.commit].value = 3
  /\ bqOp.op = "push"

\* C38: a Queue made with maxLength > 0 never holds more than maxLength
\* elements, after any operation and under any overflow policy; on a Queue
\* made with maxLength <= 0 every Push appends its value, reports no drop
\* and returns no error.
C38_Bounded == bq.maxLength > 0 => QueueLen(bq) <= bq.maxLength

C38_Step ==
  (bqOp'.op = "push" /\ bqPushed' # bqPushed /\ bq.maxLength <= 0) =>
    /\ ~bqOp'.ok
    /\ bqOp'.err = Nil
    /\ QueueLen(bq)' = QueueLen(bq) + 1
    /\ C37_Values(bq)' = Append(C37_Values(bq), bqOp'.value)

C38_Capacity == []C38_Bounded /\ [][C38_Step]_vars

\* A full queue of capacity 2 after a Push that dropped the oldest element.
C38_Witness ==
  /\ bq.maxLength = 2
  /\ bq.overflowPolicy = "OverflowDropOldest"
  /\ QueueLen(bq) = 2
  /\ bqOp = Returned("push", 3, TRUE, Nil, 0)

\* A queue made with maxLength -1 that holds more than MaxQueueLen
\* elements after a Push.
C38_WitnessUnbounded ==
  /\ bq.maxLength < 0
  /\ QueueLen(bq) > MaxQueueLen
  /\ bqOp.op = "push"
  /\ ~bqOp.ok

\* C39: in every state of the metrics, also while Reset() runs during a
\* CommitAll call, failures is at most attempts, and a Snapshot() made
\* after a Reset() with no attempt since the Reset reports attempts = 0,
\* failures = 0 and average = 0.  Here the Snapshot counts as such only if
\* no attempt began from the call of Reset to the return of Snapshot.
C39_AfterReset == probe.returned /\ probe.quiet

C39_CountersConsistent ==
  /\ failures <= attempts
  /\ C39_AfterReset =>
       probe.got = [attempts |-> 0, failures |-> 0, average |-> 0]

\* C40: after any sequence of pushBack, pushFront, popFront, popBack and
\* appendLocked a deque has head nil exactly when tail is nil and exactly
\* when len is 0, no node before its head and none after its tail, and len
\* linked nodes; and appendLocked(other) moves the nodes of other behind
\* the tail in their order, adds other's len to len and leaves other empty.
RECURSIVE C40_NodesFrom(_, _, _)
C40_NodesFrom(heap, n, fuel) ==
  IF n = NilNode \/ fuel = 0 THEN <<>>
  ELSE <<n>> \o C40_NodesFrom(heap, heap[n].next, fuel - 1)

C40_Nodes(d) == C40_NodesFrom(nodes, d.head, MaxPush + 1)

C40_Deque(d) ==
  /\ (d.head = NilNode) <=> (d.tail = NilNode)
  /\ (d.head = NilNode) <=> (d.len = 0)
  /\ d.head # NilNode => nodes[d.head].prev = NilNode
  /\ d.tail # NilNode => nodes[d.tail].next = NilNode
  /\ Len(C40_Nodes(d)) = d.len
  /\ d.len > 0 => C40_Nodes(d)[d.len] = d.tail
  /\ \A i \in 2..Len(C40_Nodes(d)) :
       nodes[C40_Nodes(d)[i]].prev = C40_Nodes(d)[i - 1]

C40_Invariant ==
  /\ C40_Deque(qVisible[TheQueue])
  /\ C40_Deque(qPending[TheQueue])

C40_Step ==
  (\E t \in Committers : tpc[t] = "splice" /\ tpc'[t] # "splice") =>
    /\ C40_Nodes(qVisible[TheQueue])' =
         C40_Nodes(qVisible[TheQueue]) \o C40_Nodes(qPending[TheQueue])
    /\ Contents(qVisible[TheQueue], nodes)' =
         Contents(qVisible[TheQueue], nodes) \o Contents(qPending[TheQueue], nodes)
    /\ qVisible'[TheQueue].len =
         qVisible[TheQueue].len + qPending[TheQueue].len
    /\ qPending'[TheQueue] = newDeque

C40_DequeAndSplice == []C40_Invariant /\ [][C40_Step]_vars

\* A Commit has just spliced: 1 was committed before, then 2 was pushed at
\* the back of pending and 3 at its front, and the splice has put 3 and 2
\* behind 1.
C40_Witness ==
  /\ \E t \in Committers : tpc[t] = "pending.Unlock"
  /\ Contents(qVisible[TheQueue], nodes) = <<1, 3, 2>>
  /\ qPending[TheQueue] = newDeque

====
